---- MODULE Spec2Model ----
(***************************************************************************)
(* Model of the resumable export pipeline of telegram-channels-monitor:    *)
(*   - TelegramDownloader.download_chat with the ResumeManager checkpoint  *)
(*     (specification Spec),                                               *)
(*   - MediaDownloader.download_batch with its semaphore                   *)
(*     (specifications SpecBatch and SpecBatchFair),                       *)
(*   - MediaDownloader._generate_filename (specification SpecName),        *)
(*   - download_batch on two messages with one id (SpecBatchDup),          *)
(*   - MediaDownloader.download_media and its target path (SpecMedia),     *)
(*   - ContentFilter.apply_filters (SpecFilter) and its date range filter  *)
(*     (SpecDate),                                                         *)
(*   - DataValidator.validate_message (SpecValidate) and                   *)
(*     validate_and_clean_batch with its statistics (SpecValBatch),        *)
(*   - DataExporter.export_all_formats (SpecExport),                       *)
(*   - StreamProcessor.process_messages_stream (SpecStream),               *)
(*   - TelegramDownloader._process_batch with media download               *)
(*     (SpecProcess),                                                      *)
(*   - validate_and_clean_batch under every setting (SpecClean),           *)
(*   - StreamProcessor.split_large_export (SpecSplit),                     *)
(*   - download_chat under a fair scheduler (SpecFair).                    *)
(* Every specification constrains all the variables; the variables of the  *)
(* other parts stay at their idle values.                                  *)
(***************************************************************************)
EXTENDS Integers, Sequences, FiniteSets, TLC

VARIABLES
    \* ---- download_chat: the chat and the disk ----
    source,            \* the chat's records in the order iter_messages(reverse=True) yields them
    resume,            \* the resume argument of download_chat
    checkpoint,        \* resume_data/resume_<chat_id>.json
    sink,              \* ids of the records written to the export directory, in writing order
    \* ---- download_chat: the running call ----
    pc,                \* position of the call
    resume_point,      \* local resume_point (None is 0)
    pos,               \* number of records the iterator has yielded
    batch,             \* local batch
    messages,          \* local messages
    total_downloaded,  \* local total_downloaded
    result,            \* how the call ended for its caller
    error,             \* what ended the call early
    \* ---- download_chat: history ----
    runs,              \* number of calls started
    chain_start,       \* Len(sink) when the last call that found no checkpoint started
    prior_total,       \* total_downloaded of the checkpoint the running call loaded
    \* ---- download_batch ----
    b_messages,        \* the messages argument
    max_concurrent,    \* the max_concurrent argument
    semaphore,         \* value of the asyncio.Semaphore
    task,              \* position of each download_with_semaphore task
    outcome,           \* what each task's download_media returned
    files,             \* target paths that exist on disk (named by message id)
    fetches,           \* per message id, the number of network fetches started
    b_results,         \* the returned results list
    b_pc,              \* position of download_batch itself
    \* ---- _generate_filename ----
    n_media_type, n_original_filename, n_extension, n_message_id, n_filename, n_pc,
    \* ---- download_media, called one call after another ----
    md_disk,           \* the files under download_dir: path and the record each was saved for
    md_message,        \* the message argument of the last call
    md_path,           \* file_path of the last call
    md_result,         \* what the last call returned
    md_calls,          \* number of calls made
    \* ---- ContentFilter ----
    cf_message,        \* the message argument
    cf_config,         \* the filters_config argument: the order of its keys and their parameters
    cf_result,         \* what the call returned, or that it raised
    cf_pc,             \* position of the call
    \* ---- DataValidator ----
    dv_config,         \* the settings read in __init__
    dv_messages,       \* the messages argument (one record for validate_message)
    dv_verdict,        \* what validate_message returned
    dv_valid,          \* valid_messages, each with the input position it came from
    dv_invalid,        \* invalid_messages, each with the input position it came from
    dv_stats,          \* what get_validation_stats returned
    dv_pc,             \* position of the call
    \* ---- export_multiple_formats ----
    ex_formats,        \* the formats argument
    ex_i,              \* position of the loop over formats
    ex_results,        \* the results dictionary
    ex_attempts,       \* the writers called so far, with how each ended
    ex_pc,             \* position of the call
    \* ---- process_messages_stream ----
    sp_source,         \* the records messages_generator yields, by id
    sp_batch_size,     \* the batch_size argument
    sp_file,           \* what has been written to output_file, one element per write
    sp_batch,          \* local batch
    sp_pos,            \* number of records the generator has yielded
    sp_first_message,  \* local first_message
    sp_i,              \* _write_batch: number of records of the batch written
    sp_sep,            \* _write_batch: the separator of the next record is written
    sp_stats,          \* stats: total_messages and chunks_written
    sp_pc,             \* position of the call
    \* ---- _process_batch ----
    pb_batch,          \* the batch argument, each record with what happens to its attachment
    pb_download_media, \* the download_media argument
    pb_entity,         \* whether client.get_entity answers or raises
    pb_result,         \* the list the call returned
    pb_pc,             \* position of the call
    \* ---- split_large_export ----
    sl_source,         \* the records messages_generator yields: the size of each one's JSON text
    sl_max_bytes,      \* max_bytes
    sl_pos,            \* number of records the generator has yielded
    sl_current_file_num,   \* local current_file_num
    sl_current_file_size,  \* local current_file_size
    sl_current_messages,   \* local current_messages, by position in the source
    sl_created_files,  \* the files saved so far: part number and records
    sl_pc              \* position of the call

chatVars == <<source, resume, checkpoint, sink, pc, resume_point, pos, batch,
              messages, total_downloaded, result, error, runs, chain_start,
              prior_total>>
batchVars == <<b_messages, max_concurrent, semaphore, task, outcome, files,
               fetches, b_results, b_pc>>
nameVars == <<n_media_type, n_original_filename, n_extension, n_message_id,
              n_filename, n_pc>>
mediaVars == <<md_disk, md_message, md_path, md_result, md_calls>>
filterVars == <<cf_message, cf_config, cf_result, cf_pc>>
validatorVars == <<dv_config, dv_messages, dv_verdict, dv_valid, dv_invalid,
                   dv_stats, dv_pc>>
exportVars == <<ex_formats, ex_i, ex_results, ex_attempts, ex_pc>>
streamVars == <<sp_source, sp_batch_size, sp_file, sp_batch, sp_pos,
                sp_first_message, sp_i, sp_sep, sp_stats, sp_pc>>
processVars == <<pb_batch, pb_download_media, pb_entity, pb_result, pb_pc>>
splitVars == <<sl_source, sl_max_bytes, sl_pos, sl_current_file_num,
               sl_current_file_size, sl_current_messages, sl_created_files, sl_pc>>
vars == <<chatVars, batchVars, nameVars, mediaVars, filterVars, validatorVars,
          exportVars, streamVars, processVars, splitVars>>

-----------------------------------------------------------------------------
(* Bounds *)

MaxLen == 5
MaxRuns == 3
BatchSize == 2
MaxBatch == 3
MaxConcurrent == 2
MaxNameLen == 3
MaxCalls == 2
MaxFilters == 2
MaxTime == 3
MaxTextLen == 2
MaxValBatch == 3
MaxFormats == 3
MaxStream == 5
MaxStreamBatch == 3
MaxProcess == 3
MaxCleanLen == 3
MaxShardSource == 4
MaxSize == 3
MaxBytes == 3

\* Python's None for an integer that is otherwise a positive message id.
None == 0

-----------------------------------------------------------------------------
(* Generic helpers *)

Ids(s) == [i \in 1..Len(s) |-> s[i].id]

Count(s, x) == Cardinality({i \in 1..Len(s) : s[i] = x})

Last(s) == s[Len(s)]

-----------------------------------------------------------------------------
(* The chat: records carry the id and what the filter and the validator    *)
(* decide about them.  Message ids are unique within a chat and the        *)
(* iterator yields them oldest first, so the i-th record has id i (gaps    *)
(* between ids only relabel them).                                         *)

Kinds == {"ok", "filtered", "invalid"}

Sources ==
    UNION {{[i \in 1..n |-> [id |-> i, kind |-> kinds[i]]] :
              kinds \in [1..n -> Kinds]} : n \in 0..MaxLen}

-----------------------------------------------------------------------------
(* ResumeManager *)

NoCheckpoint == [state |-> "absent", last_message_id |-> 0, total_downloaded |-> 0]
CorruptCheckpoint == [state |-> "corrupt", last_message_id |-> 0, total_downloaded |-> 0]

\* The file save_progress writes when open and write both succeed.
save_progress(last_message_id, total) ==
    [state |-> "ok", last_message_id |-> last_message_id, total_downloaded |-> total]

\* load_progress: None when the file is missing or cannot be parsed.
load_progress(ck) == IF ck.state = "ok" THEN ck ELSE NoCheckpoint

check_resume_point(ck) ==
    IF load_progress(ck).state = "ok" THEN load_progress(ck).last_message_id ELSE None

\* mark_completed unlinks the file when it exists, readable or not.
mark_completed(ck) == NoCheckpoint

-----------------------------------------------------------------------------
(* ContentFilter / DataValidator as download_chat sees them *)

apply_filters(m) == m.kind # "filtered"

validate_message(m) == m.kind = "ok"

RECURSIVE remove_duplicates_from_list(_, _)
remove_duplicates_from_list(ms, seen_ids) ==
    IF ms = <<>> THEN <<>>
    ELSE IF Head(ms).id \notin seen_ids
         THEN <<Head(ms)>> \o remove_duplicates_from_list(Tail(ms), seen_ids \cup {Head(ms).id})
         ELSE remove_duplicates_from_list(Tail(ms), seen_ids)

validate_and_clean_batch(ms) ==
    remove_duplicates_from_list(SelectSeq(ms, validate_message), {})

\* Mutant: media resolution returns the batch in the order its downloads
\* finished, the last record first.
_process_batch_Reordered(b) == [i \in 1..Len(b) |-> b[Len(b) + 1 - i]]

\* _process_batch returns the records of the batch, all of them and in the
\* same order, on each of its three return paths.
_process_batch(b) == b

-----------------------------------------------------------------------------
(* download_chat *)

Running == {"stream", "commit", "validate", "complete"}

\* Mutants of the resume test: it lets the checkpointed record itself
\* through, or it is ignored.
SkipResumed_Strict(m, rp) == rp # None /\ m.id < rp
SkipResumed_Never(m, rp) == FALSE

\* The test of lines 217-219 that skips an already checkpointed record.
SkipResumed(m, rp) == rp # None /\ m.id <= rp

\* The locals of a call that has ended by an exception or a crash.
Dropped ==
    /\ resume_point' = None
    /\ pos' = 0
    /\ batch' = <<>>
    /\ messages' = <<>>
    /\ total_downloaded' = 0
    /\ prior_total' = 0

ChatIdleBatch ==
    UNCHANGED <<batchVars, nameVars, mediaVars, filterVars, validatorVars, exportVars, streamVars,
                processVars, splitVars>>

\* Lines 168-179: the chat cannot be resolved; the exception is caught and
\* the call returns {'error': ...} before it reads the checkpoint.
StartFails ==
    /\ pc \in {"idle", "done", "aborted"}
    /\ runs < MaxRuns
    /\ runs' = runs + 1
    /\ pc' = "aborted"
    /\ result' = "error_dict"
    /\ error' = "lookup"
    /\ Dropped
    /\ UNCHANGED <<source, resume, checkpoint, sink, chain_start>>
    /\ ChatIdleBatch

\* Lines 168-208: resolve the chat, read the resume point, open the iterator.
Start ==
    /\ pc \in {"idle", "done", "aborted"}
    /\ runs < MaxRuns
    /\ runs' = runs + 1
    /\ resume_point' = IF resume THEN check_resume_point(checkpoint) ELSE None
    /\ prior_total' = IF resume THEN load_progress(checkpoint).total_downloaded ELSE 0
    /\ chain_start' = IF resume /\ check_resume_point(checkpoint) # None
                      THEN chain_start ELSE Len(sink)
    /\ pos' = 0
    /\ batch' = <<>>
    /\ messages' = <<>>
    /\ total_downloaded' = 0
    /\ result' = "none"
    /\ error' = "none"
    /\ pc' = "stream"
    /\ UNCHANGED <<source, resume, checkpoint, sink>>
    /\ ChatIdleBatch

\* Lines 212-245: one record from the iterator (a Message object is never
\* falsy, so the test of line 213 lets every record through).
Pull ==
    /\ pc = "stream"
    /\ pos < Len(source)
    /\ pos' = pos + 1
    /\ LET m == source[pos + 1] IN
         IF (resume /\ SkipResumed(m, resume_point)) \/ ~apply_filters(m)
         THEN /\ batch' = batch
              /\ pc' = "stream"
         ELSE /\ batch' = Append(batch, m)
              /\ pc' = IF Len(batch) + 1 >= BatchSize THEN "commit" ELSE "stream"
    /\ UNCHANGED <<source, resume, checkpoint, sink, resume_point, messages,
                   total_downloaded, result, error, runs, chain_start, prior_total>>
    /\ ChatIdleBatch

\* Lines 248-264: a full batch; save_progress either writes the file, or
\* fails before touching it, or fails after open(..., 'w') truncated it.
CommitBatch ==
    /\ pc = "commit"
    /\ LET processed == _process_batch(batch) IN
       \E io \in (IF resume THEN {"written", "open_failed", "truncated"} ELSE {"written"}) :
         IF io = "written"
         THEN /\ messages' = messages \o processed
              /\ total_downloaded' = total_downloaded + Len(processed)
              /\ checkpoint' = IF resume
                               THEN save_progress(Last(batch).id,
                                                  total_downloaded + Len(processed))
                               ELSE checkpoint
              /\ batch' = <<>>
              /\ pc' = "stream"
              /\ UNCHANGED <<resume_point, pos, prior_total, result, error>>
         ELSE /\ checkpoint' = IF io = "truncated" THEN CorruptCheckpoint ELSE checkpoint
              /\ pc' = "aborted"
              /\ result' = "raised"
              /\ error' = "io"
              /\ Dropped
    /\ UNCHANGED <<source, resume, sink, runs, chain_start>>
    /\ ChatIdleBatch

\* Lines 266-270: the iterator is exhausted; the remainder is processed.
Exhausted ==
    /\ pc = "stream"
    /\ pos = Len(source)
    /\ messages' = messages \o _process_batch(batch)
    /\ total_downloaded' = total_downloaded + Len(_process_batch(batch))
    /\ batch' = <<>>
    /\ pc' = "validate"
    /\ UNCHANGED <<source, resume, checkpoint, sink, resume_point, pos, result,
                   error, runs, chain_start, prior_total>>
    /\ ChatIdleBatch

\* Lines 272-298: validation, then the export of the valid records and the
\* validation report.  export_multiple_formats turns a writer's exception
\* into an error string; export_validation_report lets its exception out.
ValidateExport ==
    /\ pc = "validate"
    /\ LET valid_messages == validate_and_clean_batch(messages) IN
         IF valid_messages = <<>>
         THEN /\ pc' = "complete"
              /\ UNCHANGED <<sink, result, error, resume_point, pos, batch, messages,
                             total_downloaded, prior_total>>
         ELSE \E io \in {"written", "writer_error", "report_error"} :
                /\ sink' = IF io = "writer_error" THEN sink
                           ELSE sink \o Ids(valid_messages)
                /\ IF io = "report_error"
                   THEN /\ pc' = "aborted"
                        /\ result' = "raised"
                        /\ error' = "io"
                        /\ Dropped
                   ELSE /\ pc' = "complete"
                        /\ UNCHANGED <<result, error, resume_point, pos, batch,
                                       messages, total_downloaded, prior_total>>
    /\ UNCHANGED <<source, resume, checkpoint, runs, chain_start>>
    /\ ChatIdleBatch

\* Lines 300-313: the checkpoint is removed and the summary returned.
Complete ==
    /\ pc = "complete"
    /\ checkpoint' = IF resume THEN mark_completed(checkpoint) ELSE checkpoint
    /\ pc' = "done"
    /\ result' = "returned"
    /\ UNCHANGED <<source, resume, sink, resume_point, pos, batch, messages,
                   total_downloaded, error, runs, chain_start, prior_total>>
    /\ ChatIdleBatch

\* Mutant: the exception is caught by a handler that removes the checkpoint.
SourceError_CleansUp(kind) ==
    /\ pc = "stream"
    /\ pc' = "aborted"
    /\ result' = "raised"
    /\ error' = kind
    /\ checkpoint' = mark_completed(checkpoint)
    /\ Dropped
    /\ UNCHANGED <<source, resume, sink, runs, chain_start>>
    /\ ChatIdleBatch

\* The iterator raises inside `async for` (line 212): no handler in
\* download_chat, so the exception leaves it whatever its class.
SourceError(kind) ==
    /\ pc = "stream"
    /\ pc' = "aborted"
    /\ result' = "raised"
    /\ error' = kind
    /\ Dropped
    /\ UNCHANGED <<source, resume, checkpoint, sink, runs, chain_start>>
    /\ ChatIdleBatch

\* The process dies between two steps.
Crash ==
    /\ pc \in Running
    /\ pc' = "aborted"
    /\ result' = "none"
    /\ error' = "crash"
    /\ Dropped
    /\ UNCHANGED <<source, resume, checkpoint, sink, runs, chain_start>>
    /\ ChatIdleBatch

BatchIdle ==
    /\ b_messages = <<>>
    /\ max_concurrent = 0
    /\ semaphore = 0
    /\ task = <<>>
    /\ outcome = <<>>
    /\ files = {}
    /\ fetches = <<>>
    /\ b_results = <<>>
    /\ b_pc = "idle"

NameIdle ==
    /\ n_media_type = "photo"
    /\ n_original_filename = <<>>
    /\ n_extension = <<>>
    /\ n_message_id = 0
    /\ n_filename = <<>>
    /\ n_pc = "idle"

\* No call of download_media has been made and download_dir is empty.
MediaIdle ==
    /\ md_disk = {}
    /\ md_message = [chat |-> 0, id |-> 0, media |-> "none", mime |-> "",
                     voice |-> FALSE, file_name |-> <<>>]
    /\ md_path = <<>>
    /\ md_result = "idle"
    /\ md_calls = 0

\* No call of the content filter has been made.
FilterIdle ==
    /\ cf_message = <<>>
    /\ cf_config = <<>>
    /\ cf_result = "none"
    /\ cf_pc = "idle"

\* No call of the validator has been made.
ValidatorIdle ==
    /\ dv_config = <<>>
    /\ dv_messages = <<>>
    /\ dv_verdict = <<>>
    /\ dv_valid = <<>>
    /\ dv_invalid = <<>>
    /\ dv_stats = <<>>
    /\ dv_pc = "idle"

\* No export has been asked for.
ExportIdle ==
    /\ ex_formats = <<>>
    /\ ex_i = 0
    /\ ex_results = <<>>
    /\ ex_attempts = <<>>
    /\ ex_pc = "idle"

\* No stream is being processed.
StreamIdle ==
    /\ sp_source = <<>>
    /\ sp_batch_size = 0
    /\ sp_file = <<>>
    /\ sp_batch = <<>>
    /\ sp_pos = 0
    /\ sp_first_message = TRUE
    /\ sp_i = 0
    /\ sp_sep = FALSE
    /\ sp_stats = [total_messages |-> 0, chunks_written |-> 0]
    /\ sp_pc = "idle"

\* No call of _process_batch has been made.
ProcessIdle ==
    /\ pb_batch = <<>>
    /\ pb_download_media = FALSE
    /\ pb_entity = "answers"
    /\ pb_result = <<>>
    /\ pb_pc = "idle"

\* No sharded export is running.
SplitIdle ==
    /\ sl_source = <<>>
    /\ sl_max_bytes = 0
    /\ sl_pos = 0
    /\ sl_current_file_num = 1
    /\ sl_current_file_size = 0
    /\ sl_current_messages = <<>>
    /\ sl_created_files = <<>>
    /\ sl_pc = "idle"

\* The parts that none of download_chat, download_batch and
\* _generate_filename touch.
OthersIdle ==
    /\ MediaIdle
    /\ FilterIdle
    /\ ValidatorIdle
    /\ ExportIdle
    /\ StreamIdle
    /\ ProcessIdle
    /\ SplitIdle

ChatIdle ==
    /\ source = <<>>
    /\ resume = FALSE
    /\ checkpoint = NoCheckpoint
    /\ sink = <<>>
    /\ pc = "idle"
    /\ resume_point = None
    /\ pos = 0
    /\ batch = <<>>
    /\ messages = <<>>
    /\ total_downloaded = 0
    /\ result = "none"
    /\ error = "none"
    /\ runs = 0
    /\ chain_start = 0
    /\ prior_total = 0

Init ==
    /\ source \in Sources
    /\ resume \in BOOLEAN
    /\ checkpoint = NoCheckpoint
    /\ sink = <<>>
    /\ pc = "idle"
    /\ resume_point = None
    /\ pos = 0
    /\ batch = <<>>
    /\ messages = <<>>
    /\ total_downloaded = 0
    /\ result = "none"
    /\ error = "none"
    /\ runs = 0
    /\ chain_start = 0
    /\ prior_total = 0
    /\ BatchIdle
    /\ NameIdle
    /\ OthersIdle

Next ==
    \/ StartFails
    \/ Start
    \/ Pull
    \/ CommitBatch
    \/ Exhausted
    \/ ValidateExport
    \/ Complete
    \/ \E kind \in {"permanent", "transient"} : SourceError(kind)
    \/ Crash

Spec == Init /\ [][Next]_vars

-----------------------------------------------------------------------------
(* MediaDownloader.download_batch *)

\* A message of the batch: its id and its media, which is absent ("none"),
\* a kind _extract_media_info describes ("file"), or another kind ("other").
MediaKinds == {"none", "file", "other"}

BatchInputs ==
    UNION {{[i \in 1..n |-> [id |-> i, media |-> kinds[i]]] :
              kinds \in [1..n -> MediaKinds]} : n \in 0..MaxBatch}

\* The tasks of line 279, one per message with media, by message index.
Tasks == {i \in 1..Len(b_messages) : b_messages[i].media # "none"}

\* download_media calls running inside `async with semaphore`.
InFlight == Cardinality({i \in Tasks : task[i] \in {"fetch", "hash"}})

\* Mutant: the semaphore lets every task in.
CanAcquire_Unbounded(value) == TRUE

\* asyncio.Semaphore.acquire returns at once only while the value is positive.
CanAcquire(value) == value > 0

BatchIdleChat ==
    UNCHANGED <<chatVars, nameVars, mediaVars, filterVars, validatorVars, exportVars, streamVars,
                processVars, splitVars>>

\* Lines 272-280: the semaphore, the tasks, gather.
BatchStart ==
    /\ b_pc = "idle"
    /\ semaphore' = max_concurrent
    /\ task' = [i \in 1..Len(b_messages) |->
                  IF b_messages[i].media # "none" THEN "wait" ELSE "no_task"]
    /\ outcome' = [i \in 1..Len(b_messages) |-> "pending"]
    /\ fetches' = [i \in 1..Len(b_messages) |-> 0]
    /\ b_pc' = "gather"
    /\ UNCHANGED <<b_messages, max_concurrent, files, b_results>>
    /\ BatchIdleChat

\* A task acquires the semaphore and download_media runs to its first
\* suspension (lines 92-123): no descriptor, or the hash of the existing
\* file, or the network fetch.
Enter(i) ==
    /\ b_pc = "gather"
    /\ task[i] = "wait"
    /\ CanAcquire(semaphore)
    /\ IF b_messages[i].media = "other"
       THEN /\ task' = [task EXCEPT ![i] = "done"]
            /\ outcome' = [outcome EXCEPT ![i] = "none"]
            /\ UNCHANGED <<semaphore, fetches>>
       ELSE IF b_messages[i].id \in files
       THEN /\ task' = [task EXCEPT ![i] = "hash"]
            /\ semaphore' = semaphore - 1
            /\ UNCHANGED <<outcome, fetches>>
       ELSE /\ task' = [task EXCEPT ![i] = "fetch"]
            /\ semaphore' = semaphore - 1
            /\ fetches' = [fetches EXCEPT ![i] = @ + 1]
            /\ UNCHANGED outcome
    /\ UNCHANGED <<b_messages, max_concurrent, files, b_results, b_pc>>
    /\ BatchIdleChat

\* Lines 111-120: the file was there; its hash is read and the semaphore released.
FinishHash(i) ==
    /\ b_pc = "gather"
    /\ task[i] = "hash"
    /\ task' = [task EXCEPT ![i] = "done"]
    /\ outcome' = [outcome EXCEPT ![i] = "already_exists"]
    /\ semaphore' = semaphore + 1
    /\ UNCHANGED <<b_messages, max_concurrent, files, fetches, b_results, b_pc>>
    /\ BatchIdleChat

\* Lines 123-145: message.download_media returns the path, or nothing, or
\* raises; the semaphore is released.
FinishFetch(i) ==
    /\ b_pc = "gather"
    /\ task[i] = "fetch"
    /\ \E r \in {"saved", "no_path", "raised"} :
         /\ files' = IF r = "saved" THEN files \cup {b_messages[i].id} ELSE files
         /\ outcome' = [outcome EXCEPT ![i] = IF r = "saved" THEN "downloaded" ELSE "none"]
    /\ task' = [task EXCEPT ![i] = "done"]
    /\ semaphore' = semaphore + 1
    /\ UNCHANGED <<b_messages, max_concurrent, fetches, b_results, b_pc>>
    /\ BatchIdleChat

RECURSIVE Descriptors(_, _)

\* Mutant: the first item that failed ends the collection of the results.
Descriptors_StopAtFailure(i, out) ==
    IF i > Len(out) \/ out[i] = "none" THEN <<>>
    ELSE (IF out[i] \in {"downloaded", "already_exists"}
          THEN <<[id |-> i, downloaded |-> (out[i] = "downloaded")]>> ELSE <<>>)
         \o Descriptors(i + 1, out)

Descriptors(i, out) ==
    IF i > Len(out) THEN <<>>
    ELSE (IF out[i] \in {"downloaded", "already_exists"}
          THEN <<[id |-> i, downloaded |-> (out[i] = "downloaded")]>> ELSE <<>>)
         \o Descriptors(i + 1, out)

\* Lines 280-288: gather has every result; the descriptors are returned in
\* task order.
BatchReturn ==
    /\ b_pc = "gather"
    /\ \A i \in Tasks : task[i] = "done"
    /\ b_results' = Descriptors(1, outcome)
    /\ b_pc' = "returned"
    /\ UNCHANGED <<b_messages, max_concurrent, semaphore, task, outcome, files, fetches>>
    /\ BatchIdleChat

InitBatch ==
    /\ b_messages \in BatchInputs
    /\ max_concurrent \in 1..MaxConcurrent
    /\ files \in SUBSET (1..Len(b_messages))
    /\ semaphore = 0
    /\ task = <<>>
    /\ outcome = <<>>
    /\ fetches = <<>>
    /\ b_results = <<>>
    /\ b_pc = "idle"
    /\ ChatIdle
    /\ NameIdle
    /\ OthersIdle

NextBatch ==
    \/ BatchStart
    \/ \E i \in 1..Len(b_messages) : Enter(i)
    \/ \E i \in 1..Len(b_messages) : FinishHash(i)
    \/ \E i \in 1..Len(b_messages) : FinishFetch(i)
    \/ BatchReturn

SpecBatch == InitBatch /\ [][NextBatch]_vars

\* The event loop keeps running a task that can run.
SpecBatchFair == SpecBatch /\ WF_vars(NextBatch)

\* C9: at most max_concurrent download_media calls are in flight at any
\* instant, and every message with media is eventually attempted.
C9_ConcurrencyBound ==
    /\ [](b_pc = "gather" => InFlight <= max_concurrent)
    /\ <>(b_pc # "idle" /\ \A i \in Tasks : task[i] # "wait")

\* C25: download_batch always returns, whatever items fail; when it
\* returns every item with media has been attempted, the result holds the
\* descriptor of each item that succeeded, once and in task order, and
\* nothing for an item whose download_media returned None or raised.
C25_FailureIsolated ==
    /\ [](b_pc = "returned" =>
            /\ \A i \in Tasks : task[i] = "done"
            /\ \A i \in 1..Len(b_messages) :
                  Cardinality({k \in 1..Len(b_results) : b_results[k].id = i})
                    = IF outcome[i] \in {"downloaded", "already_exists"} THEN 1 ELSE 0
            /\ \A k \in 1..(Len(b_results) - 1) : b_results[k].id < b_results[k + 1].id)
    /\ <>(b_pc = "returned")

\* An item failed and a later item of the same batch is in the result.
C25_Witness ==
    /\ b_pc = "returned"
    /\ \E i, j \in Tasks :
          /\ i < j
          /\ b_messages[i].media = "file"
          /\ outcome[i] = "none"
          /\ outcome[j] = "downloaded"
          /\ \E k \in 1..Len(b_results) : b_results[k].id = j

\* The gate is full while another task waits.
C9_Witness ==
    /\ b_pc = "gather"
    /\ InFlight = max_concurrent
    /\ \E i \in Tasks : task[i] = "wait"

\* download_batch makes a task for every element of messages that has media
\* (line 279) and does not look at the ids: the caller may pass a record
\* more than once. A record's media is fixed by its id.
DupIds == {1, 2}

BatchInputsDup ==
    UNION {{[i \in 1..n |-> [id |-> ids[i], media |-> kinds[ids[i]]]] :
              ids \in [1..n -> DupIds], kinds \in [DupIds -> MediaKinds]} :
           n \in 0..MaxBatch}

InitBatchDup ==
    /\ b_messages \in BatchInputsDup
    /\ max_concurrent \in 1..MaxConcurrent
    /\ files \in SUBSET DupIds
    /\ semaphore = 0
    /\ task = <<>>
    /\ outcome = <<>>
    /\ fetches = <<>>
    /\ b_results = <<>>
    /\ b_pc = "idle"
    /\ ChatIdle
    /\ NameIdle
    /\ OthersIdle

SpecBatchDup == InitBatchDup /\ [][NextBatch]_vars

\* The tasks of a record that are fetching it or have saved its file.
Fetchers(id) ==
    {i \in Tasks : b_messages[i].id = id
                   /\ (task[i] = "fetch" \/ outcome[i] = "downloaded")}

\* C12: of the download_media calls for one record inside one download_batch
\* at most one fetches the attachment: no second call starts a fetch while
\* the first is fetching or after it has saved the file.
C12_FetchAtMostOnce ==
    b_pc # "idle" => \A id \in DupIds : Cardinality(Fetchers(id)) <= 1

-----------------------------------------------------------------------------
(* MediaDownloader._generate_filename *)

\* Strings are sequences of characters; None and "" are both the empty
\* sequence, which is how the truth tests of the function see them.
Chars == {"a", "B", ".", "/"}

Strings(n) == UNION {[1..k -> Chars] : k \in 0..n}

Digit(d) == <<"0", "1", "2", "3", "4", "5", "6", "7", "8", "9">>[d + 1]

\* str(message_id) of a non-negative integer.
RECURSIVE StrOfInt(_)
StrOfInt(n) == IF n < 10 THEN <<Digit(n)>> ELSE StrOfInt(n \div 10) \o <<Digit(n % 10)>>

\* str.lower() on the alphabet.
LowerChar(c) == IF c = "B" THEN "b" ELSE c
Lower(cs) == [i \in 1..Len(cs) |-> LowerChar(cs[i])]

HasDot(cs) == \E i \in 1..Len(cs) : cs[i] = "."

\* original_filename.rsplit('.', 1)[-1] of a name that contains a dot.
AfterLastDot(cs) ==
    LET i == CHOOSE k \in 1..Len(cs) :
                 cs[k] = "." /\ \A j \in (k + 1)..Len(cs) : cs[j] # "."
    IN SubSeq(cs, i + 1, Len(cs))

MediaTypes == {"photo", "video", "audio", "document", "voice", "sticker",
               "contact", "location"}

_get_default_extension(media_type) ==
    CASE media_type = "photo"    -> <<".", "j", "p", "g">>
      [] media_type = "video"    -> <<".", "m", "p", "4">>
      [] media_type = "audio"    -> <<".", "m", "p", "3">>
      [] media_type = "voice"    -> <<".", "o", "g", "g">>
      [] media_type = "sticker"  -> <<".", "w", "e", "b", "p">>
      [] media_type = "document" -> <<".", "b", "i", "n">>
      [] OTHER                   -> <<".", "b", "i", "n">>

\* The extension arguments the callers pass: none, '.jpg' for a photo, the
\* guess of mimetypes for a document, '.bin' when it has none.
ExtensionArgs == {<<>>, <<".", "j", "p", "g">>, <<".", "p", "d", "f">>, <<".", "b", "i", "n">>}

MessageIds == {7, 160883, 160903}

_generate_filename(media_type, original_filename, extension, message_id) ==
    IF extension # <<>>
    THEN StrOfInt(message_id) \o extension
    ELSE IF original_filename # <<>> /\ HasDot(original_filename)
    THEN StrOfInt(message_id) \o (<<".">> \o Lower(AfterLastDot(original_filename)))
    ELSE StrOfInt(message_id) \o _get_default_extension(media_type)

NameIdleOthers ==
    UNCHANGED <<chatVars, batchVars, mediaVars, filterVars, validatorVars, exportVars, streamVars,
                processVars, splitVars>>

Generate ==
    /\ n_pc = "idle"
    /\ n_filename' = _generate_filename(n_media_type, n_original_filename,
                                        n_extension, n_message_id)
    /\ n_pc' = "done"
    /\ UNCHANGED <<n_media_type, n_original_filename, n_extension, n_message_id>>
    /\ NameIdleOthers

InitName ==
    /\ n_media_type \in MediaTypes
    /\ n_original_filename \in Strings(MaxNameLen)
    /\ n_extension \in ExtensionArgs
    /\ n_message_id \in MessageIds
    /\ n_filename = <<>>
    /\ n_pc = "idle"
    /\ ChatIdle
    /\ BatchIdle
    /\ OthersIdle

NextName == Generate

SpecName == InitName /\ [][NextName]_vars

\* One extension: a dot followed by at least one character, none of them a
\* dot or a path separator.
IsExtension(e) ==
    /\ Len(e) >= 2
    /\ e[1] = "."
    /\ \A i \in 2..Len(e) : e[i] \notin {".", "/"}

\* C10: the name is str(message_id) followed by exactly one extension, which
\* is the extension argument, the lowercased extension of the original
\* filename, or the default of the media type; nothing else of the original
\* filename is in it.
C10_NameIsIdPlusExtension ==
    n_pc = "done" =>
        LET stem == StrOfInt(n_message_id)
            ext == SubSeq(n_filename, Len(stem) + 1, Len(n_filename))
        IN /\ SubSeq(n_filename, 1, Len(stem)) = stem
           /\ IsExtension(ext)
           /\ \/ ext = n_extension
              \/ ext = _get_default_extension(n_media_type)
              \/ /\ HasDot(n_original_filename)
                 /\ ext = <<".">> \o Lower(AfterLastDot(n_original_filename))

-----------------------------------------------------------------------------
(* Properties of download_chat, checked under Spec *)

\* What the calls since the last start without a checkpoint have written.
ChainOutput == SubSeq(sink, chain_start + 1, Len(sink))

InSeq(s, x) == \E i \in 1..Len(s) : s[i] = x

Resumed == resume /\ resume_point # None

\* C1: a checkpoint on disk with last_message_id = L covers only records that
\* are already written to the output: every record with id <= L that passes
\* the filter and the validation is in the output files.
C1_CheckpointAfterWrite ==
    (resume /\ checkpoint.state = "ok") =>
        \A i \in 1..Len(source) :
            (source[i].kind = "ok" /\ source[i].id <= checkpoint.last_message_id)
                => InSeq(ChainOutput, source[i].id)

\* C2: when a resumed export has run to completion, every record of the chat
\* that passes the filter and the validation is in the output exactly once.
C2_ResumeExactlyOnce ==
    (pc = "done" /\ Resumed) =>
        \A i \in 1..Len(source) :
            source[i].kind = "ok" => Count(ChainOutput, source[i].id) = 1

\* C3: in a call resumed from last_message_id = L, the records put into the
\* batches are exactly the pulled records with id > L that pass the filter,
\* in source order; none has id <= L.
C3_ResumeSkips ==
    (Resumed /\ pc \in Running \cup {"done"}) =>
        LET Wanted(m) == m.id > resume_point /\ apply_filters(m) IN
          /\ messages \o batch = SelectSeq(SubSeq(source, 1, pos), Wanted)
          /\ \A i \in 1..Len(messages \o batch) : (messages \o batch)[i].id > resume_point

\* A resumed call has finished after skipping a record and keeping another.
C3_Witness ==
    /\ pc = "done"
    /\ Resumed
    /\ messages # <<>>
    /\ \E i \in 1..Len(source) : source[i].id <= resume_point

\* C4: in a call resumed from a checkpoint with total T, every checkpoint the
\* call saves and its final count are T plus the number of records committed
\* since the resume.
C4_CumulativeTotal ==
    /\ (Resumed /\ pc \in {"stream", "commit"} /\ checkpoint.state = "ok"
           /\ checkpoint.last_message_id > resume_point)
         => checkpoint.total_downloaded = prior_total + Len(messages)
    /\ (Resumed /\ pc = "done")
         => total_downloaded = prior_total + Len(messages)

\* C5: the last_message_id of the checkpoint never decreases from one saved
\* checkpoint to the next, within a call and from an interrupted call to the
\* one that resumes it.
C5_CursorMonotone ==
    [][(checkpoint.state = "ok" /\ checkpoint'.state = "ok")
          => checkpoint'.last_message_id >= checkpoint.last_message_id]_vars

\* A resumed call has saved a checkpoint beyond the one it loaded.
C5_Witness ==
    /\ Resumed
    /\ checkpoint.state = "ok"
    /\ checkpoint.last_message_id > resume_point

\* C6: the checkpoint file is present exactly while an export with resume is
\* in progress or was interrupted.
C6_CheckpointIff ==
    (checkpoint.state # "absent") <=> (resume /\ pc \notin {"idle", "done"})

\* C7: a permanent source error during the pull ends the call at once with
\* the exception raised to the caller and the checkpoint as the last
\* committed batch left it; nothing is saved or deleted afterwards.
C7_PermanentErrorAborts ==
    [][/\ (error' = "permanent" /\ error # "permanent")
            => (pc' = "aborted" /\ result' = "raised" /\ checkpoint' = checkpoint)
       /\ (error = "permanent" /\ pc = "aborted")
            => checkpoint' = checkpoint]_vars

\* A permanent error has ended a call that had committed a batch.
C7_Witness ==
    /\ pc = "aborted"
    /\ error = "permanent"
    /\ result = "raised"
    /\ checkpoint.state = "ok"

\* C8: a transient source error never ends the export.
C8_TransientRetried == ~(pc = "aborted" /\ error = "transient")

-----------------------------------------------------------------------------
(* MediaDownloader.download_media and _extract_media_info *)

\* The MIME types of the documents, with what str.startswith sees of each.
Mimes == {"image/png", "video/x-unknown", "audio/ogg", "application/pdf",
          "application/x-tgsticker", "text/plain"}

MimePrefix(mime) ==
    CASE mime = "image/png"               -> "image/"
      [] mime = "video/x-unknown"         -> "video/"
      [] mime = "audio/ogg"               -> "audio/"
      [] mime = "application/pdf"         -> "application/"
      [] mime = "application/x-tgsticker" -> "application/"
      [] OTHER                            -> "text/"

\* mimetypes.guess_extension: the extension of the types the table knows,
\* None (the empty sequence) for the others.
guess_extension(mime) ==
    CASE mime = "image/png"       -> <<".", "p", "n", "g">>
      [] mime = "audio/ogg"       -> <<".", "o", "g", "a">>
      [] mime = "application/pdf" -> <<".", "p", "d", "f">>
      [] mime = "text/plain"      -> <<".", "t", "x", "t">>
      [] OTHER                    -> <<>>

_get_file_extension_from_mime(mime_type) ==
    IF guess_extension(mime_type) # <<>> THEN guess_extension(mime_type)
    ELSE <<".", "b", "i", "n">>

\* The file names a DocumentAttributeFilename declares; <<>> is no such
\* attribute.
DeclaredNames == {<<>>, <<"a">>, <<"a", ".", "B">>}

\* The records download_media is called for: the chat, the message id and
\* the media of the message.
MediaKeys == {[chat |-> 1, id |-> 7], [chat |-> 2, id |-> 7], [chat |-> 1, id |-> 8]}

MediaMessages ==
    {[chat |-> k.chat, id |-> k.id, media |-> md, mime |-> "", voice |-> FALSE,
      file_name |-> <<>>] : k \in MediaKeys, md \in {"none", "photo", "contact", "geo", "poll"}}
    \cup
    {[chat |-> k.chat, id |-> k.id, media |-> "document", mime |-> mime,
      voice |-> v, file_name |-> fname] :
        k \in MediaKeys, mime \in Mimes, v \in BOOLEAN, fname \in DeclaredNames}

NoInfo == [type |-> "none", filename |-> <<>>, extension |-> <<>>]

\* Lines 147-247. A key the dictionary lacks reads as None through .get(),
\* which is the empty sequence here.
_extract_media_info(message) ==
    CASE message.media = "photo" ->
           [type |-> "photo", filename |-> <<>>, extension |-> <<".", "j", "p", "g">>]
      [] message.media = "document" ->
           [type |-> CASE MimePrefix(message.mime) = "image/" -> "photo"
                       [] MimePrefix(message.mime) = "video/" -> "video"
                       [] MimePrefix(message.mime) = "audio/" ->
                            IF message.voice THEN "voice" ELSE "audio"
                       [] OTHER -> "document",
            filename |-> message.file_name,
            extension |-> _get_file_extension_from_mime(message.mime)]
      [] message.media = "contact" ->
           [type |-> "contact", filename |-> <<>>, extension |-> <<>>]
      [] message.media = "geo" ->
           [type |-> "location", filename |-> <<>>, extension |-> <<>>]
      [] OTHER -> NoInfo

\* self.subdirs, lines 31-40.
subdirs(type) ==
    CASE type = "photo"    -> "photos"
      [] type = "video"    -> "videos"
      [] type = "audio"    -> "audio"
      [] type = "document" -> "documents"
      [] type = "voice"    -> "voice"
      [] type = "sticker"  -> "stickers"
      [] type = "contact"  -> "contacts"
      [] OTHER             -> "locations"

\* Lines 100-108: save_dir / filename. The chat_id argument is not part of it.
file_path(message, chat_id) ==
    LET media_info == _extract_media_info(message)
    IN <<subdirs(media_info.type),
         _generate_filename(media_info.type, media_info.filename,
                            media_info.extension, message.id)>>

MediaIdleOthers ==
    UNCHANGED <<chatVars, batchVars, nameVars, filterVars, validatorVars, exportVars, streamVars,
                processVars, splitVars>>

\* Lines 85-145, one whole call: no media or no description returns None;
\* an existing target is hashed and reported; otherwise the fetch saves the
\* file, returns no path, or raises.
download_media ==
    /\ md_calls < MaxCalls
    /\ \E message \in MediaMessages :
         /\ md_message' = message
         /\ IF message.media = "none" \/ _extract_media_info(message) = NoInfo
            THEN /\ md_path' = <<>>
                 /\ md_result' = "none"
                 /\ md_disk' = md_disk
            ELSE LET path == file_path(message, message.chat) IN
                 /\ md_path' = path
                 /\ IF \E f \in md_disk : f.path = path
                    THEN /\ md_result' = "already_exists"
                         /\ md_disk' = md_disk
                    ELSE \E net \in {"saved", "no_path", "raised"} :
                           IF net = "saved"
                           THEN /\ md_result' = "downloaded"
                                /\ md_disk' = md_disk \cup
                                     {[path |-> path, chat |-> message.chat,
                                       id |-> message.id]}
                           ELSE /\ md_result' = "none"
                                /\ md_disk' = md_disk
    /\ md_calls' = md_calls + 1
    /\ MediaIdleOthers

InitMedia ==
    /\ MediaIdle
    /\ ChatIdle
    /\ ProcessIdle
    /\ SplitIdle
    /\ BatchIdle
    /\ NameIdle
    /\ FilterIdle
    /\ ValidatorIdle
    /\ ExportIdle
    /\ StreamIdle

SpecMedia == InitMedia /\ [][download_media]_vars

\* The extension the priority order gives a document: the declared file
\* name's, else the MIME type's, else the default of the kind.
PriorityExtension(message) ==
    IF HasDot(message.file_name)
    THEN <<".">> \o Lower(AfterLastDot(message.file_name))
    ELSE IF guess_extension(message.mime) # <<>>
    THEN guess_extension(message.mime)
    ELSE _get_default_extension(_extract_media_info(message).type)

\* C11: the target file of a document carries the extension of the priority
\* order: the declared file name's extension when there is one, the
\* MIME-derived extension only when there is none, the default of the kind
\* last.
C11_ExtensionPriority ==
    (md_result \in {"downloaded", "already_exists"} /\ md_message.media = "document")
        => md_path[2] = StrOfInt(md_message.id) \o PriorityExtension(md_message)

\* C13: download_media reports already_exists only for a file that was saved
\* for the same record, the same chat and the same message id.
C13_CollisionFree ==
    md_result = "already_exists" =>
        \A f \in md_disk :
            f.path = md_path => (f.chat = md_message.chat /\ f.id = md_message.id)

-----------------------------------------------------------------------------
(* ContentFilter *)

\* Texts are sequences of characters.
T_link5 == <<"w", "w", "w", ".", "a">>
T_url20 == <<"a", " ", "h", "t", "t", "p", ":", "/", "/", "e", "x", "a", "m", "p",
             "l", "e", ".", "c", "o", "m">>

Texts ==
    {<<>>, T_link5, T_url20,
     <<"h", "i", " ", "@", "b", "o", "b">>,
     <<"a", "a", "a", "a", "a", "a", "a", "a", "a", "a">>}

\* The 'date' of a record, by kind: "iso", an ISO string with or without a
\* UTC offset; "datetime", the datetime object that Message.to_dict() holds;
\* "garbage", a string that is no ISO timestamp; "none", None; "missing", no
\* such key. t is the instant and aware tells whether it has an offset.
Date(kind, t, aware) == [kind |-> kind, t |-> t, aware |-> aware]

\* A bound of date_range: an ISO string with or without a UTC offset.
Bound(t, aware) == [t |-> t, aware |-> aware]

\* date_range: each of 'start' and 'end' is absent (<<>>) or one bound.
DateRange(start, end) == [start |-> start, end |-> end]
EmptyRange == DateRange(<<>>, <<>>)

\* A literal occurs in the text at position i.
StartsAt(text, i, lit) ==
    /\ i + Len(lit) - 1 <= Len(text)
    /\ SubSeq(text, i, i + Len(lit) - 1) = lit

\* re.search(r'https?://\S+|www\.\S+', text)
HasUrl(text) ==
    \E i \in 1..Len(text) :
        \E lit \in {<<"h", "t", "t", "p", ":", "/", "/">>,
                    <<"h", "t", "t", "p", "s", ":", "/", "/">>,
                    <<"w", "w", "w", ".">>} :
            /\ StartsAt(text, i, lit)
            /\ i + Len(lit) <= Len(text)
            /\ text[i + Len(lit)] # " "

\* re.search(r'@\w+', text)
HasMention(text) ==
    \E i \in 1..Len(text) :
        text[i] = "@" /\ i < Len(text) /\ text[i + 1] \notin {" ", ".", "/", ":", "@"}

\* re.search(pattern, text, re.IGNORECASE) for a literal pattern.
Search(pattern, text) ==
    \E i \in 1..(Len(text) + 1) :
        /\ i + Len(pattern) - 1 <= Len(text)
        /\ Lower(SubSeq(text, i, i + Len(pattern) - 1)) = Lower(pattern)

Truth(b) == IF b THEN "true" ELSE "false"

\* Lines 27-47: the allowed types are looked up among the keys of the record.
_filter_by_media_type(message, allowed_types) ==
    IF allowed_types = <<>> THEN TRUE
    ELSE \E i \in 1..Len(allowed_types) :
            CASE allowed_types[i] = "text"  -> message.message # <<>>
              [] allowed_types[i] = "photo" -> message.photo
              [] OTHER                      -> FALSE

\* Lines 49-58.
_filter_by_text_patterns(message, patterns) ==
    IF patterns = <<>> THEN TRUE
    ELSE IF message.message = <<>> THEN FALSE
    ELSE \E i \in 1..Len(patterns) : Search(patterns[i], message.message)

\* Comparing an offset-naive datetime with an offset-aware one raises.
Comparable(d, bound) == d.aware = bound.aware

\* Lines 60-80. The result is "true", "false" or "raised".
_filter_by_date_range(message, date_range) ==
    IF date_range = EmptyRange THEN "true"
    ELSE IF message.date.kind # "iso" THEN "raised"
    ELSE IF date_range.start # <<>> /\ ~Comparable(message.date, date_range.start[1])
    THEN "raised"
    ELSE IF date_range.start # <<>> /\ message.date.t < date_range.start[1].t
    THEN "false"
    ELSE IF date_range.end # <<>> /\ ~Comparable(message.date, date_range.end[1])
    THEN "raised"
    ELSE IF date_range.end # <<>> /\ message.date.t > date_range.end[1].t
    THEN "false"
    ELSE "true"

\* Lines 82-88.
_filter_by_sender(message, sender_ids) ==
    IF sender_ids = <<>> THEN TRUE
    ELSE \E i \in 1..Len(sender_ids) : sender_ids[i] = message.sender_id

\* Lines 90-96: None and 0 both mean no minimum.
_filter_by_length(message, min_length) ==
    IF min_length = None THEN TRUE
    ELSE Len(message.message) >= min_length

\* Lines 98-134: a flag is None (<<>>) or one boolean.
_filter_by_links(message, has_links) ==
    IF has_links = <<>> THEN TRUE
    ELSE HasUrl(message.message) = has_links[1]

_filter_by_mentions(message, has_mentions) ==
    IF has_mentions = <<>> THEN TRUE
    ELSE HasMention(message.message) = has_mentions[1]

_filter_by_forwarded(message, is_forwarded) ==
    IF is_forwarded = <<>> THEN TRUE
    ELSE message.fwd_from = is_forwarded[1]

_filter_by_edited(message, is_edited) ==
    IF is_edited = <<>> THEN TRUE
    ELSE message.edit_date = is_edited[1]

\* self.filters, lines 15-25.
FilterNames == {"media_types", "text_patterns", "date_range", "sender_ids",
                "min_length", "has_links", "has_mentions", "is_forwarded",
                "is_edited"}

\* self.filters[filter_name](message, filter_config)
filters(filter_name, message, filters_config) ==
    CASE filter_name = "media_types" ->
           Truth(_filter_by_media_type(message, filters_config.media_types))
      [] filter_name = "text_patterns" ->
           Truth(_filter_by_text_patterns(message, filters_config.text_patterns))
      [] filter_name = "date_range" ->
           _filter_by_date_range(message, filters_config.date_range)
      [] filter_name = "sender_ids" ->
           Truth(_filter_by_sender(message, filters_config.sender_ids))
      [] filter_name = "min_length" ->
           Truth(_filter_by_length(message, filters_config.min_length))
      [] filter_name = "has_links" ->
           Truth(_filter_by_links(message, filters_config.has_links))
      [] filter_name = "has_mentions" ->
           Truth(_filter_by_mentions(message, filters_config.has_mentions))
      [] filter_name = "is_forwarded" ->
           Truth(_filter_by_forwarded(message, filters_config.is_forwarded))
      [] OTHER ->
           Truth(_filter_by_edited(message, filters_config.is_edited))

RECURSIVE ApplyFrom(_, _, _)

\* Mutant: the loop returns True as soon as one filter passes.
ApplyFrom_Any(message, filters_config, i) ==
    IF i > Len(filters_config.keys) THEN "true"
    ELSE IF filters_config.keys[i] \notin FilterNames
    THEN ApplyFrom(message, filters_config, i + 1)
    ELSE filters(filters_config.keys[i], message, filters_config)

\* Lines 138-143: the loop over filters_config.items() from its i-th key on.
ApplyFrom(message, filters_config, i) ==
    IF i > Len(filters_config.keys) THEN "true"
    ELSE IF filters_config.keys[i] \notin FilterNames
    THEN ApplyFrom(message, filters_config, i + 1)
    ELSE IF filters(filters_config.keys[i], message, filters_config) # "true"
    THEN filters(filters_config.keys[i], message, filters_config)
    ELSE ApplyFrom(message, filters_config, i + 1)

\* Lines 136-143.
ContentFilter_apply_filters(message, filters_config) ==
    ApplyFrom(message, filters_config, 1)

\* The records given to the filter.
FilterMessages ==
    [message : Texts, photo : BOOLEAN, date : {Date("iso", 2, TRUE)},
     sender_id : {1, 2}, fwd_from : BOOLEAN, edit_date : BOOLEAN]

\* A filters_config: its keys in the order of the dictionary, and the
\* parameter of each key; "limit" is a key self.filters does not know.
KeyOrders ==
    {order \in UNION {[1..n -> FilterNames \cup {"limit"}] : n \in 0..MaxFilters} :
        \A i, j \in 1..Len(order) : i # j => order[i] # order[j]}

\* The parameters that mean no constraint: None, an empty list, an empty
\* dictionary, 0.
NoConstraint ==
    [media_types |-> <<>>, text_patterns |-> <<>>, date_range |-> EmptyRange,
     sender_ids |-> <<>>, min_length |-> None, has_links |-> <<>>,
     has_mentions |-> <<>>, is_forwarded |-> <<>>, is_edited |-> <<>>]

Parameters ==
    [media_types : {<<>>, <<"photo">>},
     text_patterns : {<<>>, <<<<"B">>>>},
     date_range : {EmptyRange,
                   DateRange(<<Bound(3, TRUE)>>, <<>>),
                   DateRange(<<Bound(1, TRUE)>>, <<Bound(3, TRUE)>>),
                   DateRange(<<Bound(1, FALSE)>>, <<>>)},
     sender_ids : {<<>>, <<1>>},
     min_length : {None, 10},
     has_links : {<<>>, <<TRUE>>, <<FALSE>>},
     has_mentions : {<<>>, <<TRUE>>},
     is_forwarded : {<<>>, <<FALSE>>},
     is_edited : {<<>>, <<TRUE>>}]

Range(f) == {f[i] : i \in DOMAIN f}

\* A key the dictionary lacks has no parameter: it is kept at NoConstraint.
Config(order, c) ==
    [keys |-> order, media_types |-> c.media_types,
     text_patterns |-> c.text_patterns, date_range |-> c.date_range,
     sender_ids |-> c.sender_ids, min_length |-> c.min_length,
     has_links |-> c.has_links, has_mentions |-> c.has_mentions,
     is_forwarded |-> c.is_forwarded, is_edited |-> c.is_edited]

FilterConfigs ==
    {Config(order, c) :
        <<order, c>> \in
            {oc \in KeyOrders \X Parameters :
                \A k \in FilterNames \ Range(oc[1]) : oc[2][k] = NoConstraint[k]}}

FilterIdleOthers ==
    UNCHANGED <<chatVars, batchVars, nameVars, mediaVars, validatorVars, exportVars, streamVars,
                processVars, splitVars>>

\* One call of apply_filters.
ApplyFilters ==
    /\ cf_pc = "idle"
    /\ cf_result' = ContentFilter_apply_filters(cf_message, cf_config)
    /\ cf_pc' = "done"
    /\ UNCHANGED <<cf_message, cf_config>>
    /\ FilterIdleOthers

InitFilter ==
    /\ cf_message \in FilterMessages
    /\ cf_config \in FilterConfigs
    /\ cf_result = "none"
    /\ cf_pc = "idle"
    /\ ChatIdle
    /\ ProcessIdle
    /\ SplitIdle
    /\ BatchIdle
    /\ NameIdle
    /\ MediaIdle
    /\ ValidatorIdle
    /\ ExportIdle
    /\ StreamIdle

SpecFilter == InitFilter /\ [][ApplyFilters]_vars

\* The keys of the configuration that name a filter.
ActiveKeys == {cf_config.keys[i] : i \in 1..Len(cf_config.keys)} \cap FilterNames

\* C14: apply_filters returns true exactly when every filter whose key is
\* present passes; a key that is absent or whose parameter is empty or None
\* never rejects; with min_length = 10 and has_links = true a 5-character
\* link-only text is rejected and a 20-character text with a URL accepted;
\* the record and the configuration are not changed.
C14_Conjunction ==
    /\ [](cf_pc = "done" =>
           /\ (cf_result = "true") <=>
                 \A k \in ActiveKeys : filters(k, cf_message, cf_config) = "true"
           /\ \A k \in ActiveKeys :
                 cf_config[k] = NoConstraint[k]
                     => filters(k, cf_message, cf_config) = "true"
           /\ (ActiveKeys = {"min_length", "has_links"} /\ cf_config.min_length = 10
                 /\ cf_config.has_links = <<TRUE>>)
                => /\ cf_message.message = T_link5 => cf_result = "false"
                   /\ cf_message.message = T_url20 => cf_result = "true")
    /\ [][cf_message' = cf_message /\ cf_config' = cf_config]_vars

\* The 20-character text with a URL has passed min_length = 10 and
\* has_links = true.
C14_Witness ==
    /\ cf_pc = "done"
    /\ ActiveKeys = {"min_length", "has_links"}
    /\ cf_config.min_length = 10
    /\ cf_config.has_links = <<TRUE>>
    /\ cf_message.message = T_url20
    /\ cf_result = "true"

\* The bounds of a date range are at the instants 1..MaxTime; the dates of
\* the records reach one unit beyond them on both sides.
RecordDates ==
    {Date("iso", t, aware) : t \in 0..(MaxTime + 1), aware \in BOOLEAN}
    \cup {Date("datetime", t, TRUE) : t \in 0..(MaxTime + 1)}
    \cup {Date("missing", 0, FALSE)}

Bounds == {<<>>} \cup {<<Bound(t, aware)>> : t \in 1..MaxTime, aware \in BOOLEAN}

\* One call of _filter_by_date_range.
FilterDate ==
    /\ cf_pc = "idle"
    /\ cf_result' = _filter_by_date_range(cf_message, cf_config.date_range)
    /\ cf_pc' = "done"
    /\ UNCHANGED <<cf_message, cf_config>>
    /\ FilterIdleOthers

InitDate ==
    /\ cf_message \in [message : {T_link5}, photo : {FALSE}, date : RecordDates,
                       sender_id : {1}, fwd_from : {FALSE}, edit_date : {FALSE}]
    /\ cf_config \in {Config(<<"date_range">>, [NoConstraint EXCEPT !.date_range = r]) :
                        r \in {DateRange(start, end) : start \in Bounds, end \in Bounds}}
    /\ cf_result = "none"
    /\ cf_pc = "idle"
    /\ ChatIdle
    /\ ProcessIdle
    /\ SplitIdle
    /\ BatchIdle
    /\ NameIdle
    /\ MediaIdle
    /\ ValidatorIdle
    /\ ExportIdle
    /\ StreamIdle

SpecDate == InitDate /\ [][FilterDate]_vars

\* start <= date <= end, a missing bound being unbounded on its side.
InRange(d, r) ==
    /\ r.start # <<>> => r.start[1].t <= d.t
    /\ r.end # <<>> => d.t <= r.end[1].t

\* C15: _filter_by_date_range accepts a record that has a date if and only
\* if start <= date <= end, both bounds inclusive and a missing bound
\* unbounded.
C15_InclusiveRange ==
    (cf_pc = "done" /\ cf_message.date.kind # "missing") =>
        ((cf_result = "true") <=> InRange(cf_message.date, cf_config.date_range))

-----------------------------------------------------------------------------
(* DataValidator *)

\* The 'id' of a record, by kind: "int", an integer; "str", a value of
\* another type; "absent", no such key.
Id(kind, v) == [kind |-> kind, v |-> v]

\* The 'message' of a record, by kind: "str", a string; "none", None;
\* "absent", no such key.
TextValue(kind, cs) == [kind |-> kind, text |-> cs]

\* The 'sender_info' of a record, by kind: "dict", a dictionary with its
\* 'deleted' flag; "none", None; "absent", no such key.
SenderInfo(kind, deleted) == [kind |-> kind, deleted |-> deleted]

\* The characters of a text: a letter, a space, the control character
\* \x01, and the entity &lt; of four characters that html.unescape turns
\* into the one character <.
ValChars == {"a", " ", "^A", "&lt;"}

ValTexts(n) == UNION {[1..k -> ValChars] : k \in 0..n}

\* len(text)
RECURSIVE TextLen(_)
TextLen(cs) ==
    IF cs = <<>> THEN 0
    ELSE (IF Head(cs) = "&lt;" THEN 4 ELSE 1) + TextLen(Tail(cs))

\* The validator's settings, lines 20-26.
DefaultMaxTextLength == 10000

ValConfigs ==
    [min_text_length : {0, 2}, max_text_length : {2, DefaultMaxTextLength},
     remove_deleted_users : BOOLEAN, validate_dates : BOOLEAN,
     clean_html : BOOLEAN, remove_duplicates : BOOLEAN]

Verdict(is_valid, reason) == [is_valid |-> is_valid, error |-> reason]

\* Lines 28-70. Every exception is caught at line 69 and becomes a verdict.
DataValidator_validate_message(message, config) ==
    IF message.id.kind = "absent" THEN Verdict(FALSE, "missing field: id")
    ELSE IF message.date.kind = "missing" THEN Verdict(FALSE, "missing field: date")
    ELSE IF message.message.kind = "absent" THEN Verdict(FALSE, "missing field: message")
    ELSE IF message.id.kind # "int" \/ message.id.v <= 0 THEN Verdict(FALSE, "bad id")
    ELSE IF config.validate_dates /\ message.date.kind = "garbage"
    THEN Verdict(FALSE, "bad date")
    ELSE IF message.message.kind # "str" THEN Verdict(FALSE, "text is not a string")
    ELSE IF TextLen(message.message.text) < config.min_text_length
    THEN Verdict(FALSE, "text too short")
    ELSE IF TextLen(message.message.text) > config.max_text_length
    THEN Verdict(FALSE, "text too long")
    ELSE IF config.remove_deleted_users /\ message.sender_info.kind = "none"
    THEN Verdict(FALSE, "validation error")
    ELSE IF config.remove_deleted_users /\ message.sender_info.deleted
    THEN Verdict(FALSE, "deleted user")
    ELSE Verdict(TRUE, "none")

\* html.unescape
Unescape(cs) == [i \in 1..Len(cs) |-> IF cs[i] = "&lt;" THEN "<" ELSE cs[i]]

\* re.sub(r'\s+', ' ', text)
RECURSIVE Collapse(_)
Collapse(cs) ==
    IF Len(cs) <= 1 THEN cs
    ELSE IF cs[1] = " " /\ cs[2] = " " THEN Collapse(Tail(cs))
    ELSE <<cs[1]>> \o Collapse(Tail(cs))

\* str.strip()
RECURSIVE LStrip(_)
LStrip(cs) == IF cs # <<>> /\ Head(cs) = " " THEN LStrip(Tail(cs)) ELSE cs

RECURSIVE RStrip(_)
RStrip(cs) ==
    IF cs # <<>> /\ cs[Len(cs)] = " " THEN RStrip(SubSeq(cs, 1, Len(cs) - 1)) ELSE cs

\* re.sub(r'[\x00-\x08\x0B\x0C\x0E-\x1F\x7F]', '', text)
RemoveControl(cs) == SelectSeq(cs, LAMBDA c : c # "^A")

\* Lines 76-90.
CleanText(cs, config) ==
    RemoveControl(RStrip(LStrip(Collapse(IF config.clean_html THEN Unescape(cs) ELSE cs))))

\* Lines 72-115. The date keeps its instant, the sender keeps its flag, and
\* the records here hold no media key.
DataValidator_clean_message(message, config) ==
    IF message.message.kind = "str"
    THEN [message EXCEPT !.message = TextValue("str", CleanText(message.message.text, config))]
    ELSE message

\* message_id is truthy.
TruthyId(id) == id.kind = "str" \/ (id.kind = "int" /\ id.v # 0)

\* Lines 122-132: the loop, with seen_ids.
RECURSIVE Unique(_, _)
Unique(entries, seen_ids) ==
    IF entries = <<>> THEN <<>>
    ELSE LET message_id == Head(entries).rec.id IN
         IF TruthyId(message_id) /\ message_id \notin seen_ids
         THEN <<Head(entries)>> \o Unique(Tail(entries), seen_ids \cup {message_id})
         ELSE IF ~TruthyId(message_id)
         THEN <<Head(entries)>> \o Unique(Tail(entries), seen_ids)
         ELSE Unique(Tail(entries), seen_ids)

\* Mutant: the list is returned as it came, whatever the setting.
DataValidator_remove_duplicates_from_list_Off(entries, config) == entries

\* Lines 117-138.
DataValidator_remove_duplicates_from_list(entries, config) ==
    IF ~config.remove_duplicates THEN entries ELSE Unique(entries, {})

\* Lines 148-159: the valid records cleaned, each with its input position.
ValidEntries(msgs, config) ==
    LET all == [i \in 1..Len(msgs) |->
                  [src |-> i, rec |-> DataValidator_clean_message(msgs[i], config)]]
    IN SelectSeq(all, LAMBDA e :
                   DataValidator_validate_message(msgs[e.src], config).is_valid)

\* Lines 148-159: the invalid records with their errors.
InvalidEntries(msgs, config) ==
    LET all == [i \in 1..Len(msgs) |->
                  [src |-> i, message |-> msgs[i],
                   error |-> DataValidator_validate_message(msgs[i], config).error]]
    IN SelectSeq(all, LAMBDA e :
                   ~DataValidator_validate_message(msgs[e.src], config).is_valid)

\* Mutant: the invalid records are not subtracted.
get_validation_stats_ValidOnly(original_count, valid_messages, invalid_messages) ==
    [original_count |-> original_count,
     valid_count |-> Len(valid_messages),
     invalid_count |-> Len(invalid_messages),
     error_reasons |-> <<>>,
     removed_duplicates |-> original_count - Len(valid_messages)]

\* Lines 166-189, without the percentage.
get_validation_stats(original_count, valid_messages, invalid_messages) ==
    [original_count |-> original_count,
     valid_count |-> Len(valid_messages),
     invalid_count |-> Len(invalid_messages),
     error_reasons |->
        [e \in {invalid_messages[i].error : i \in 1..Len(invalid_messages)} |->
            Cardinality({i \in 1..Len(invalid_messages) : invalid_messages[i].error = e})],
     removed_duplicates |-> original_count - Len(valid_messages) - Len(invalid_messages)]

ValidatorIdleOthers ==
    UNCHANGED <<chatVars, batchVars, nameVars, mediaVars, filterVars, exportVars, streamVars,
                processVars, splitVars>>

\* The records given to validate_message.
ValMessages ==
    [id : {Id("absent", 0), Id("str", 0), Id("int", 0), Id("int", 1)},
     date : {Date("missing", 0, FALSE), Date("iso", 1, TRUE), Date("datetime", 1, TRUE), Date("garbage", 0, FALSE), Date("none", 0, FALSE)},
     message : {TextValue("absent", <<>>), TextValue("none", <<>>)} \cup {TextValue("str", cs) : cs \in ValTexts(MaxTextLen)},
     sender_info : {SenderInfo("absent", FALSE), SenderInfo("none", FALSE), SenderInfo("dict", FALSE), SenderInfo("dict", TRUE)}]

\* One call of validate_message.
ValidateMessage ==
    /\ dv_pc = "idle"
    /\ Len(dv_messages) = 1
    /\ dv_verdict' = DataValidator_validate_message(dv_messages[1], dv_config)
    /\ dv_pc' = "done"
    /\ UNCHANGED <<dv_config, dv_messages, dv_valid, dv_invalid, dv_stats>>
    /\ ValidatorIdleOthers

InitValidate ==
    /\ dv_config \in {c \in ValConfigs : c.clean_html /\ c.remove_duplicates}
    /\ dv_messages \in {<<m>> : m \in ValMessages}
    /\ dv_verdict = <<>>
    /\ dv_valid = <<>>
    /\ dv_invalid = <<>>
    /\ dv_stats = <<>>
    /\ dv_pc = "idle"
    /\ ChatIdle
    /\ ProcessIdle
    /\ SplitIdle
    /\ BatchIdle
    /\ NameIdle
    /\ MediaIdle
    /\ FilterIdle
    /\ ExportIdle
    /\ StreamIdle

SpecValidate == InitValidate /\ [][ValidateMessage]_vars

\* What the claim asks of a record.
Acceptable(message, config) ==
    /\ message.id.kind # "absent"
    /\ message.date.kind # "missing"
    /\ message.message.kind # "absent"
    /\ message.id.kind = "int" /\ message.id.v > 0
    /\ message.date.kind \in {"iso", "datetime"}
    /\ message.message.kind = "str"
    /\ TextLen(message.message.text) >= config.min_text_length
    /\ TextLen(message.message.text) <= config.max_text_length
    /\ config.remove_deleted_users =>
          ~(message.sender_info.kind = "dict" /\ message.sender_info.deleted)

\* C16: validate_message accepts a record if and only if id, date and text
\* are present, id is a positive integer, date is a timestamp, text is a
\* string of a length within the bounds and, when remove_deleted_users is
\* set, the sender is not flagged deleted; otherwise it returns false with
\* a reason.
C16_ValidateIff ==
    dv_pc = "done" /\ Len(dv_messages) = 1 /\ dv_verdict # <<>> =>
        /\ dv_verdict.is_valid <=> Acceptable(dv_messages[1], dv_config)
        /\ ~dv_verdict.is_valid => dv_verdict.error # "none"

\* The records of a batch: ids that repeat, with and without sender_info,
\* with a good and a bad date.
BatchRecords ==
    [id : {Id("int", 0), Id("int", 1), Id("int", 2)},
     date : {Date("iso", 1, TRUE), Date("garbage", 0, FALSE)},
     message : {TextValue("str", <<" ", "a">>)},
     sender_info : {SenderInfo("absent", FALSE), SenderInfo("dict", FALSE)}]

DefaultConfig ==
    [min_text_length |-> 0, max_text_length |-> DefaultMaxTextLength,
     remove_deleted_users |-> TRUE, validate_dates |-> TRUE,
     clean_html |-> TRUE, remove_duplicates |-> TRUE]

\* Lines 140-164, one whole call.
ValidateAndCleanBatch ==
    /\ dv_pc = "idle"
    /\ dv_valid' = DataValidator_remove_duplicates_from_list(
                       ValidEntries(dv_messages, dv_config), dv_config)
    /\ dv_invalid' = InvalidEntries(dv_messages, dv_config)
    /\ dv_pc' = "validated"
    /\ UNCHANGED <<dv_config, dv_messages, dv_verdict, dv_stats>>
    /\ ValidatorIdleOthers

\* The statistics of the batch, as download_chat asks for them.
GetValidationStats ==
    /\ dv_pc = "validated"
    /\ dv_stats' = get_validation_stats(Len(dv_messages), dv_valid, dv_invalid)
    /\ dv_pc' = "done"
    /\ UNCHANGED <<dv_config, dv_messages, dv_verdict, dv_valid, dv_invalid>>
    /\ ValidatorIdleOthers

InitValBatch ==
    /\ dv_config \in {[DefaultConfig EXCEPT !.remove_duplicates = b] : b \in BOOLEAN}
    /\ dv_messages \in UNION {[1..n -> BatchRecords] : n \in 0..MaxValBatch}
    /\ dv_verdict = <<>>
    /\ dv_valid = <<>>
    /\ dv_invalid = <<>>
    /\ dv_stats = <<>>
    /\ dv_pc = "idle"
    /\ ChatIdle
    /\ ProcessIdle
    /\ SplitIdle
    /\ BatchIdle
    /\ NameIdle
    /\ MediaIdle
    /\ FilterIdle
    /\ ExportIdle
    /\ StreamIdle

NextValBatch ==
    \/ ValidateAndCleanBatch
    \/ GetValidationStats

SpecValBatch == InitValBatch /\ [][NextValBatch]_vars

\* The input positions of the records that validate_message accepts.
ValidInputs ==
    {i \in 1..Len(dv_messages) :
        DataValidator_validate_message(dv_messages[i], dv_config).is_valid}

\* No two valid records share an id, the one kept is the first valid record
\* of the input with that id, and the valid list is in input order.
FirstOfEachId ==
    /\ \A j, k \in 1..Len(dv_valid) :
          j # k => dv_valid[j].rec.id # dv_valid[k].rec.id
    /\ \A i \in ValidInputs :
          (\E k \in 1..Len(dv_valid) : dv_valid[k].src = i)
             <=> \A j \in ValidInputs : j < i => dv_messages[j].id # dv_messages[i].id
    /\ \A j, k \in 1..Len(dv_valid) : j < k => dv_valid[j].src < dv_valid[k].src

\* C17 as stated: whatever the settings, the valid list has no two records
\* with the same id, keeps the first of each id and keeps the input order.
C17_NoDuplicateIds == dv_pc \in {"validated", "done"} => FirstOfEachId

\* C17 amended: with remove_duplicates set, the valid list has no two
\* records with the same id, keeps the first valid record of each id and
\* keeps the input order.
C17_NoDuplicateIdsWhenSet ==
    (dv_pc \in {"validated", "done"} /\ dv_config.remove_duplicates) => FirstOfEachId

\* Two valid records shared an id and the first one alone is in the list.
C17_Witness ==
    /\ dv_pc = "validated"
    /\ dv_config.remove_duplicates
    /\ \E i, j \in ValidInputs :
          /\ i < j
          /\ dv_messages[i].id = dv_messages[j].id
          /\ dv_messages[i].sender_info # dv_messages[j].sender_info
          /\ \E k \in 1..Len(dv_valid) : dv_valid[k].src = i
          /\ \A k \in 1..Len(dv_valid) : dv_valid[k].src # j

\* The input positions in the valid list, in the invalid list, and in neither.
InValid(i) == Cardinality({k \in 1..Len(dv_valid) : dv_valid[k].src = i})
InInvalid(i) == Cardinality({k \in 1..Len(dv_invalid) : dv_invalid[k].src = i})
DroppedInputs == {i \in 1..Len(dv_messages) : InValid(i) = 0 /\ InInvalid(i) = 0}

\* C18: every record of the input is once in the valid list, or once in the
\* invalid list with a reason, or dropped as a duplicate of an earlier
\* valid record; every record that fails validation is in the invalid list;
\* removed_duplicates is the number of dropped records and is not negative.
C18_Partition ==
    dv_pc = "done" =>
        /\ \A i \in 1..Len(dv_messages) :
              /\ InValid(i) + InInvalid(i) <= 1
              /\ (i \notin ValidInputs) <=> InInvalid(i) = 1
              /\ i \in DroppedInputs =>
                    \E k \in 1..Len(dv_valid) :
                        /\ dv_valid[k].src < i
                        /\ dv_valid[k].rec.id = dv_messages[i].id
        /\ \A k \in 1..Len(dv_invalid) : dv_invalid[k].error # "none"
        /\ dv_stats.removed_duplicates >= 0
        /\ dv_stats.removed_duplicates = Cardinality(DroppedInputs)

\* A batch has ended with a valid record, an invalid one and a dropped
\* duplicate.
C18_Witness ==
    /\ dv_pc = "done"
    /\ dv_valid # <<>>
    /\ dv_invalid # <<>>
    /\ DroppedInputs # {}

-----------------------------------------------------------------------------
(* ExportManager.export_multiple_formats *)

\* format_handlers, lines 570-579 (a part of its keys).
format_handlers == {"json", "csv", "md"}

\* The names a caller passes: they come from the command line as typed.
FormatNames == format_handlers \cup {"pdf"}

\* Mutant: a writer's exception leaves no entry.
Store_DropError(results, fmt, ended) ==
    IF ended = "raised" THEN results
    ELSE [x \in DOMAIN results \cup {fmt} |-> IF x = fmt THEN "path" ELSE results[x]]

\* Lines 583-586: results[fmt] is the path, or the error string.
Store(results, fmt, ended) ==
    [x \in DOMAIN results \cup {fmt} |->
        IF x = fmt THEN (IF ended = "raised" THEN "error" ELSE "path")
        ELSE results[x]]

ExportIdleOthers ==
    UNCHANGED <<chatVars, batchVars, nameVars, mediaVars, filterVars, validatorVars,
                streamVars, processVars, splitVars>>

\* Lines 581-586, one turn of the loop: a name without a handler is passed
\* over; the handler of the others writes its file or raises.
ExportFormat ==
    /\ ex_pc \in {"idle", "loop"}
    /\ ex_i < Len(ex_formats)
    /\ ex_i' = ex_i + 1
    /\ ex_pc' = "loop"
    /\ IF ex_formats[ex_i + 1] \in format_handlers
       THEN \E ended \in {"written", "raised"} :
              /\ ex_results' = Store(ex_results, ex_formats[ex_i + 1], ended)
              /\ ex_attempts' = Append(ex_attempts,
                                       [fmt |-> ex_formats[ex_i + 1], outcome |-> ended])
       ELSE UNCHANGED <<ex_results, ex_attempts>>
    /\ UNCHANGED ex_formats
    /\ ExportIdleOthers

\* Line 588.
ExportReturn ==
    /\ ex_pc \in {"idle", "loop"}
    /\ ex_i = Len(ex_formats)
    /\ ex_pc' = "returned"
    /\ UNCHANGED <<ex_formats, ex_i, ex_results, ex_attempts>>
    /\ ExportIdleOthers

InitExport ==
    /\ ex_formats \in UNION {[1..n -> FormatNames] : n \in 0..MaxFormats}
    /\ ex_i = 0
    /\ ex_results = <<>>
    /\ ex_attempts = <<>>
    /\ ex_pc = "idle"
    /\ ChatIdle
    /\ ProcessIdle
    /\ SplitIdle
    /\ BatchIdle
    /\ NameIdle
    /\ MediaIdle
    /\ FilterIdle
    /\ ValidatorIdle
    /\ StreamIdle

NextExport ==
    \/ ExportFormat
    \/ ExportReturn

SpecExport == InitExport /\ [][NextExport]_vars

\* The writers were called for the formats of a set, in the order asked,
\* and each of those formats has its path or its error string.
AttemptedAll(wanted) ==
    /\ [k \in 1..Len(ex_attempts) |-> ex_attempts[k].fmt]
          = SelectSeq(ex_formats, LAMBDA f : f \in wanted)
    /\ \A k \in 1..Len(ex_formats) :
          ex_formats[k] \in wanted =>
              /\ ex_formats[k] \in DOMAIN ex_results
              /\ ex_results[ex_formats[k]] \in {"path", "error"}

\* C19 as stated: every requested format is attempted and has its path or
\* its error string in the result.
C19_EveryRequestedFormat == ex_pc = "returned" => AttemptedAll(FormatNames)

\* C19 amended: every requested format that has a writer is attempted,
\* whatever happened to the formats before it, and has its path or its
\* error string in the result; a requested name without a writer is passed
\* over and has no entry.
C19_EverySupportedFormat ==
    ex_pc = "returned" =>
        /\ AttemptedAll(format_handlers)
        /\ DOMAIN ex_results \subseteq format_handlers

\* A writer has raised and a later one has written its file.
C19_Witness ==
    /\ ex_pc = "returned"
    /\ \E j, k \in 1..Len(ex_attempts) :
          /\ j < k
          /\ ex_attempts[j].outcome = "raised"
          /\ ex_attempts[k].outcome = "written"
          /\ ex_results[ex_attempts[j].fmt] = "error"
          /\ ex_results[ex_attempts[k].fmt] = "path"

-----------------------------------------------------------------------------
(* StreamProcessor.process_messages_stream *)

\* What one write puts into the file: '[\n', ',\n', the JSON text of a
\* record, '\n]'.
Written(kind, id) == [kind |-> kind, id |-> id]
Separator == Written(",", 0)

StreamIdleOthers ==
    UNCHANGED <<chatVars, batchVars, nameVars, mediaVars, filterVars, validatorVars,
                exportVars, processVars, splitVars>>

\* Lines 55-60: the file is opened and '[\n' written.
StreamOpen ==
    /\ sp_pc = "idle"
    /\ sp_file' = <<Written("[", 0)>>
    /\ sp_first_message' = TRUE
    /\ sp_batch' = <<>>
    /\ sp_pc' = "stream"
    /\ UNCHANGED <<sp_source, sp_batch_size, sp_pos, sp_i, sp_sep, sp_stats>>
    /\ StreamIdleOthers

\* Lines 62-67: the generator yields a record; a full batch goes to
\* _write_batch.
StreamPull ==
    /\ sp_pc = "stream"
    /\ sp_pos < Len(sp_source)
    /\ sp_pos' = sp_pos + 1
    /\ sp_batch' = Append(sp_batch, sp_source[sp_pos + 1])
    /\ sp_stats' = [sp_stats EXCEPT !.total_messages = @ + 1]
    /\ sp_pc' = IF Len(sp_batch) + 1 >= sp_batch_size THEN "write" ELSE "stream"
    /\ sp_i' = 0
    /\ sp_sep' = FALSE
    /\ UNCHANGED <<sp_source, sp_batch_size, sp_file, sp_first_message>>
    /\ StreamIdleOthers

\* Lines 77-79: the generator is exhausted; a remainder goes to _write_batch.
StreamExhausted ==
    /\ sp_pc = "stream"
    /\ sp_pos = Len(sp_source)
    /\ sp_pc' = IF sp_batch # <<>> THEN "write_rest" ELSE "close"
    /\ sp_i' = 0
    /\ sp_sep' = FALSE
    /\ UNCHANGED <<sp_source, sp_batch_size, sp_file, sp_batch, sp_pos,
                   sp_first_message, sp_stats>>
    /\ StreamIdleOthers

\* Mutant: the separator is written before the first record as well.
SeparatorDue_Always == TRUE

\* Line 110: `if not is_first or i > 0`.
SeparatorDue == ~sp_first_message \/ sp_i > 0

\* Lines 108-114, one write of _write_batch: the separator of the next
\* record, or the record. After the last record the caller goes on
\* (lines 68-70, or line 82).
WriteOne ==
    /\ sp_pc \in {"write", "write_rest"}
    /\ IF SeparatorDue /\ ~sp_sep
       THEN /\ sp_file' = Append(sp_file, Separator)
            /\ sp_sep' = TRUE
            /\ UNCHANGED <<sp_batch, sp_first_message, sp_i, sp_stats, sp_pc>>
       ELSE /\ sp_file' = Append(sp_file, Written("record", sp_batch[sp_i + 1]))
            /\ sp_sep' = FALSE
            /\ IF sp_i + 1 < Len(sp_batch)
               THEN /\ sp_i' = sp_i + 1
                    /\ UNCHANGED <<sp_batch, sp_first_message, sp_stats, sp_pc>>
               ELSE IF sp_pc = "write"
               THEN /\ sp_i' = 0
                    /\ sp_stats' = [sp_stats EXCEPT !.chunks_written = @ + 1]
                    /\ sp_first_message' = FALSE
                    /\ sp_batch' = <<>>
                    /\ sp_pc' = "stream"
               ELSE /\ sp_i' = 0
                    /\ sp_pc' = "close"
                    /\ UNCHANGED <<sp_batch, sp_first_message, sp_stats>>
    /\ UNCHANGED <<sp_source, sp_batch_size, sp_pos>>
    /\ StreamIdleOthers

\* Lines 82-95: '\n]' is written, the file closed, the statistics returned.
StreamClose ==
    /\ sp_pc = "close"
    /\ sp_file' = Append(sp_file, Written("]", 0))
    /\ sp_pc' = "done"
    /\ UNCHANGED <<sp_source, sp_batch_size, sp_batch, sp_pos, sp_first_message,
                   sp_i, sp_sep, sp_stats>>
    /\ StreamIdleOthers

\* The call is cancelled, or the generator or a write raises, at one of the
\* awaits of lines 62-82: `async with` closes the file with what was
\* written and the exception leaves the call (lines 97-99).
StreamInterrupt ==
    /\ sp_pc \in {"stream", "write", "write_rest", "close"}
    /\ sp_pc' = "interrupted"
    /\ UNCHANGED <<sp_source, sp_batch_size, sp_file, sp_batch, sp_pos,
                   sp_first_message, sp_i, sp_sep, sp_stats>>
    /\ StreamIdleOthers

InitStream ==
    /\ sp_source \in {[i \in 1..n |-> i] : n \in 0..MaxStream}
    /\ sp_batch_size \in 1..MaxStreamBatch
    /\ sp_file = <<>>
    /\ sp_batch = <<>>
    /\ sp_pos = 0
    /\ sp_first_message = TRUE
    /\ sp_i = 0
    /\ sp_sep = FALSE
    /\ sp_stats = [total_messages |-> 0, chunks_written |-> 0]
    /\ sp_pc = "idle"
    /\ ChatIdle
    /\ ProcessIdle
    /\ SplitIdle
    /\ BatchIdle
    /\ NameIdle
    /\ MediaIdle
    /\ FilterIdle
    /\ ValidatorIdle
    /\ ExportIdle

NextStream ==
    \/ StreamOpen
    \/ StreamPull
    \/ StreamExhausted
    \/ WriteOne
    \/ StreamClose
    \/ StreamInterrupt

SpecStream == InitStream /\ [][NextStream]_vars

\* The records in the file, in the order written.
RecordsWritten == SelectSeq(sp_file, LAMBDA x : x.kind = "record")

\* C20: after an interrupt the file holds whole records only, ends with no
\* dangling separator, and holds every batch entirely or not at all.
C20_InterruptLeavesWholeBatches ==
    sp_pc = "interrupted" =>
        /\ Last(sp_file) # Separator
        /\ \/ Len(RecordsWritten) % sp_batch_size = 0
           \/ Len(RecordsWritten) = Len(sp_source)

-----------------------------------------------------------------------------
(* download_chat: the records it holds *)

\* C21: while an export runs it holds at most batch_size records.
C21_MemoryBound == pc \in Running => Len(batch) + Len(messages) <= BatchSize

-----------------------------------------------------------------------------
(* process_messages_stream: the finished file *)

\* The JSON array of the records: '[', the records with a separator
\* between two of them, ']'.
RECURSIVE Joined(_)
Joined(records) ==
    IF records = <<>> THEN <<>>
    ELSE IF Len(records) = 1 THEN <<Written("record", records[1])>>
    ELSE <<Written("record", Head(records)), Separator>> \o Joined(Tail(records))

\* C22: when process_messages_stream has returned, the file is the opening
\* bracket, every record of the source once and in source order with a
\* separator between two records and none before the first or after the
\* last, and the closing bracket; total_messages is the number of records
\* written; and every write only appends to what the file held.
C22_ArrayOfTheSource ==
    /\ [](sp_pc = "done" =>
            /\ sp_file = <<Written("[", 0)>> \o Joined(sp_source) \o <<Written("]", 0)>>
            /\ sp_stats.total_messages = Len(RecordsWritten))
    /\ [][/\ Len(sp_file') >= Len(sp_file)
          /\ SubSeq(sp_file', 1, Len(sp_file)) = sp_file]_vars

\* A source of one full batch and a remainder has been written and the
\* call has returned.
C22_Witness ==
    /\ sp_pc = "done"
    /\ sp_batch_size = 2
    /\ Len(sp_source) = 3
    /\ Len(RecordsWritten) = 3

-----------------------------------------------------------------------------
(* download_chat: the checkpoint after each batch *)

\* C23: in a resumable export, from the first committed batch until
\* completion the checkpoint names the last committed record and its count
\* includes that batch, the final partial batch included.
C23_CheckpointAfterEveryBatch ==
    (resume /\ pc \in {"stream", "validate", "complete"} /\ messages # <<>>) =>
        /\ checkpoint.state = "ok"
        /\ checkpoint.last_message_id = Last(messages).id
        /\ checkpoint.total_downloaded = total_downloaded

-----------------------------------------------------------------------------
(* TelegramDownloader._process_batch with media download *)

\* What happens to the attachment of a record of the batch: the message has
\* no media; get_messages does not return it; download_media saves it and
\* returns its descriptor, returns None, or the task ends with an exception.
Attachments == {"none", "unfetched", "saved", "null", "raised"}

\* The batches: message ids are unique, the i-th record has id i.
ProcessBatches ==
    UNION {{[i \in 1..n |-> [id |-> i, media |-> a[i]]] : a \in [1..n -> Attachments]} :
             n \in 0..MaxProcess}

\* The descriptor download_media returns for a message: its file is named
\* by the id of that message.
Descriptor(message) == [file_path |-> message.id]

\* Lines 332-339: the messages that were fetched and have media.
original_messages(records) ==
    SelectSeq(records, LAMBDA m : m.media \in {"saved", "null", "raised"})

\* download_batch, lines 279-288: the descriptors of the tasks that returned
\* one, in the order of the tasks.
download_batch(msgs) ==
    LET saved == SelectSeq(msgs, LAMBDA m : m.media = "saved")
    IN  [i \in 1..Len(saved) |-> Descriptor(saved[i])]

\* Line 350: zip pairs the i-th message with the i-th result and stops at
\* the shorter list.
media_dict(msgs, media_results) ==
    {<<msgs[i].id, media_results[i]>> :
        i \in 1..(IF Len(msgs) < Len(media_results) THEN Len(msgs) ELSE Len(media_results))}

\* Lines 352-359: each record of the batch, with media_info when its id is
\* a key of media_dict (<<>> is no media_info).
Annotate(records, dict) ==
    [i \in 1..Len(records) |->
        [id |-> records[i].id,
         media_info |-> IF \E e \in dict : e[1] = records[i].id
                        THEN <<(CHOOSE e \in dict : e[1] = records[i].id)[2]>>
                        ELSE <<>>]]

\* Lines 322-364.
TelegramDownloader_process_batch(records, download, entity) ==
    IF download /\ entity = "answers" /\ original_messages(records) # <<>>
    THEN Annotate(records,
                  media_dict(original_messages(records),
                             download_batch(original_messages(records))))
    ELSE Annotate(records, {})

ProcessIdleOthers ==
    UNCHANGED <<chatVars, batchVars, nameVars, mediaVars, filterVars, validatorVars,
                exportVars, streamVars, splitVars>>

\* One call of _process_batch.
ProcessBatch ==
    /\ pb_pc = "idle"
    /\ pb_result' = TelegramDownloader_process_batch(pb_batch, pb_download_media, pb_entity)
    /\ pb_pc' = "done"
    /\ UNCHANGED <<pb_batch, pb_download_media, pb_entity>>
    /\ ProcessIdleOthers

InitProcess ==
    /\ pb_batch \in ProcessBatches
    /\ pb_download_media \in BOOLEAN
    /\ pb_entity \in {"answers", "raises"}
    /\ pb_result = <<>>
    /\ pb_pc = "idle"
    /\ ChatIdle
    /\ BatchIdle
    /\ NameIdle
    /\ MediaIdle
    /\ FilterIdle
    /\ ValidatorIdle
    /\ ExportIdle
    /\ StreamIdle
    /\ SplitIdle

SpecProcess == InitProcess /\ [][ProcessBatch]_vars

\* C24: the result of _process_batch holds every record of the batch in
\* the same order; a record carries media_info only if the descriptor is of
\* its own attachment; a record whose attachment was not saved carries none.
C24_OwnMediaInfo ==
    pb_pc = "done" =>
        /\ Len(pb_result) = Len(pb_batch)
        /\ \A i \in 1..Len(pb_batch) :
              /\ pb_result[i].id = pb_batch[i].id
              /\ pb_result[i].media_info # <<>>
                    => pb_result[i].media_info[1].file_path = pb_batch[i].id
              /\ pb_batch[i].media # "saved" => pb_result[i].media_info = <<>>

-----------------------------------------------------------------------------
(* validate_and_clean_batch: the cleaned records *)

\* Records that differ in their text only, under every setting.
CleanRecords ==
    [id : {Id("int", 1)},
     date : {Date("iso", 1, TRUE)},
     message : {TextValue("str", cs) : cs \in ValTexts(MaxCleanLen)},
     sender_info : {SenderInfo("dict", FALSE)}]

InitClean ==
    /\ dv_config \in ValConfigs
    /\ dv_messages \in {<<m>> : m \in CleanRecords}
    /\ dv_verdict = <<>>
    /\ dv_valid = <<>>
    /\ dv_invalid = <<>>
    /\ dv_stats = <<>>
    /\ dv_pc = "idle"
    /\ ChatIdle
    /\ BatchIdle
    /\ NameIdle
    /\ MediaIdle
    /\ FilterIdle
    /\ ExportIdle
    /\ StreamIdle
    /\ ProcessIdle
    /\ SplitIdle

SpecClean == InitClean /\ [][NextValBatch]_vars

\* C26: every record of the valid list passes validate_message as it is
\* returned, that is after cleaning, under every pair of length bounds.
C26_CleanedStillValid ==
    dv_pc \in {"validated", "done"} =>
        \A k \in 1..Len(dv_valid) :
            DataValidator_validate_message(dv_valid[k].rec, dv_config).is_valid

\* C27: a cleaned text has no whitespace at either end, no two adjacent
\* whitespace characters and no control character, and cleaning it again
\* without HTML decoding gives the same text.
C27_CleanIsNormalForm ==
    dv_pc \in {"validated", "done"} =>
        \A k \in 1..Len(dv_valid) :
            LET text == dv_valid[k].rec.message.text IN
              /\ text # <<>> => text[1] # " " /\ text[Len(text)] # " "
              /\ \A i \in 1..(Len(text) - 1) : ~(text[i] = " " /\ text[i + 1] = " ")
              /\ \A i \in 1..Len(text) : text[i] # "^A"
              /\ CleanText(text, [dv_config EXCEPT !.clean_html = FALSE]) = text

-----------------------------------------------------------------------------
(* StreamProcessor.split_large_export *)

\* The records are named by their position in the source; sl_source[i] is
\* message_size of the i-th one (lines 189-190).
RECURSIVE SizeOf(_)
SizeOf(records) ==
    IF records = <<>> THEN 0 ELSE sl_source[Head(records)] + SizeOf(Tail(records))

\* _save_chunk: the file of one part.
Chunk(file_num, records) == [part |-> file_num, messages |-> records]

\* Mutant: the shard is closed also when it holds no record.
ShardFull_EvenEmpty(current_messages, current_file_size, message_size, max_bytes) ==
    (current_file_size + message_size) > max_bytes

\* Line 193.
ShardFull(current_messages, current_file_size, message_size, max_bytes) ==
    current_messages # <<>> /\ (current_file_size + message_size) > max_bytes

SplitIdleOthers ==
    UNCHANGED <<chatVars, batchVars, nameVars, mediaVars, filterVars, validatorVars,
                exportVars, streamVars, processVars>>

\* Lines 179-186.
SplitStart ==
    /\ sl_pc = "idle"
    /\ sl_current_file_num' = 1
    /\ sl_current_file_size' = 0
    /\ sl_current_messages' = <<>>
    /\ sl_created_files' = <<>>
    /\ sl_pc' = "stream"
    /\ UNCHANGED <<sl_source, sl_max_bytes, sl_pos>>
    /\ SplitIdleOthers

\* Lines 188-203: one record from the generator.
SplitPull ==
    /\ sl_pc = "stream"
    /\ sl_pos < Len(sl_source)
    /\ sl_pos' = sl_pos + 1
    /\ LET message_size == sl_source[sl_pos + 1] IN
         IF ShardFull(sl_current_messages, sl_current_file_size, message_size, sl_max_bytes)
         THEN /\ sl_created_files' =
                    Append(sl_created_files, Chunk(sl_current_file_num, sl_current_messages))
              /\ sl_current_file_num' = sl_current_file_num + 1
              /\ sl_current_messages' = <<sl_pos + 1>>
              /\ sl_current_file_size' = message_size
         ELSE /\ sl_current_messages' = Append(sl_current_messages, sl_pos + 1)
              /\ sl_current_file_size' = sl_current_file_size + message_size
              /\ UNCHANGED <<sl_created_files, sl_current_file_num>>
    /\ UNCHANGED <<sl_source, sl_max_bytes, sl_pc>>
    /\ SplitIdleOthers

\* Lines 205-211: the generator is exhausted; the last file is saved.
SplitFinish ==
    /\ sl_pc = "stream"
    /\ sl_pos = Len(sl_source)
    /\ sl_created_files' =
          IF sl_current_messages # <<>>
          THEN Append(sl_created_files, Chunk(sl_current_file_num, sl_current_messages))
          ELSE sl_created_files
    /\ sl_pc' = "done"
    /\ UNCHANGED <<sl_source, sl_max_bytes, sl_pos, sl_current_file_num,
                   sl_current_file_size, sl_current_messages>>
    /\ SplitIdleOthers

InitSplit ==
    /\ sl_source \in UNION {[1..n -> 1..MaxSize] : n \in 0..MaxShardSource}
    /\ sl_max_bytes \in 0..MaxBytes
    /\ sl_pos = 0
    /\ sl_current_file_num = 1
    /\ sl_current_file_size = 0
    /\ sl_current_messages = <<>>
    /\ sl_created_files = <<>>
    /\ sl_pc = "idle"
    /\ ChatIdle
    /\ BatchIdle
    /\ NameIdle
    /\ MediaIdle
    /\ FilterIdle
    /\ ValidatorIdle
    /\ ExportIdle
    /\ StreamIdle
    /\ ProcessIdle

NextSplit ==
    \/ SplitStart
    \/ SplitPull
    \/ SplitFinish

SpecSplit == InitSplit /\ [][NextSplit]_vars

\* The records of the saved files, in part order.
RECURSIVE ShardsJoined(_)
ShardsJoined(created) ==
    IF created = <<>> THEN <<>> ELSE Head(created).messages \o ShardsJoined(Tail(created))

\* C28: when split_large_export has returned, a shard of more than one
\* record is within the budget, no shard is empty, the parts are numbered
\* 1, 2, ..., a shard was closed only where the next record would have
\* exceeded the budget, and the shards in part order hold the records of the
\* source once each in source order.
C28_Shards ==
    sl_pc = "done" =>
        /\ \A k \in 1..Len(sl_created_files) :
              /\ sl_created_files[k].part = k
              /\ sl_created_files[k].messages # <<>>
              /\ Len(sl_created_files[k].messages) > 1
                    => SizeOf(sl_created_files[k].messages) <= sl_max_bytes
        /\ \A k \in 1..(Len(sl_created_files) - 1) :
              SizeOf(sl_created_files[k].messages)
                + sl_source[Head(sl_created_files[k + 1].messages)] > sl_max_bytes
        /\ ShardsJoined(sl_created_files) = [i \in 1..Len(sl_source) |-> i]

\* Three shards were saved: one of two records within the budget, and one
\* of a single record that alone exceeds the budget.
C28_Witness ==
    /\ sl_pc = "done"
    /\ Len(sl_created_files) = 3
    /\ \E k \in 1..3 : Len(sl_created_files[k].messages) = 2
    /\ \E k \in 1..3 : SizeOf(sl_created_files[k].messages) > sl_max_bytes

-----------------------------------------------------------------------------
(* download_chat: the order of the records *)

\* C29: the records download_chat has accumulated, followed by the batch
\* being filled, are records of the source already pulled, each at most
\* once and in source order; so every record of a batch precedes every
\* record of the next one, and _process_batch does not reorder a batch.
C29_SourceOrder ==
    LET acc == messages \o batch IN
      \A i \in 1..Len(acc) :
          /\ acc[i].id \in 1..pos
          /\ acc[i] = source[acc[i].id]
          /\ i < Len(acc) => acc[i].id < acc[i + 1].id

\* Two batches were committed around a record the filter rejected, and the
\* accumulated records are handed to validation.
C29_Witness ==
    /\ pc = "validate"
    /\ Len(messages) = 3
    /\ messages[3].id > 3
    /\ batch = <<>>

-----------------------------------------------------------------------------
(* download_chat: the course of an export *)

\* A call that has started goes on until it returns or an exception or a
\* crash ends it: each await of download_chat eventually completes.
SpecFair ==
    Spec /\ WF_vars(Pull \/ CommitBatch \/ Exhausted \/ ValidateExport \/ Complete)

\* The steps a call may take: IDLE is idle, STREAMING is stream, COMMITTING
\* is commit, the end of the stream leads over validate and complete to
\* DONE, and ERROR is aborted; a finished call may be followed by another.
Course ==
    {<<"idle", "stream">>, <<"idle", "aborted">>,
     <<"stream", "stream">>, <<"stream", "commit">>, <<"commit", "stream">>,
     <<"stream", "validate">>, <<"validate", "complete">>, <<"complete", "done">>,
     <<"done", "stream">>, <<"done", "aborted">>,
     <<"aborted", "stream">>, <<"aborted", "aborted">>}
    \cup {<<p, "aborted">> : p \in Running}

FollowsCourse == <<pc, pc'>> \in Course

\* The records of the source that the running call accepts.
Accepted ==
    {i \in 1..Len(source) :
        apply_filters(source[i]) /\ ~(resume /\ SkipResumed(source[i], resume_point))}

\* A step in which a write to the disk fails: save_progress in a commit,
\* or a writer or the validation report in the export.
IOFailure ==
    \/ pc = "commit" /\ resume /\ pc' # "commit"
         /\ checkpoint' # save_progress(Last(batch).id, total_downloaded + Len(batch))
    \/ pc = "validate" /\ pc' # "validate"
         /\ validate_and_clean_batch(messages) # <<>>
         /\ (sink' = sink \/ pc' = "aborted")

\* C30: a call moves along IDLE, STREAMING and COMMITTING in turn, DONE;
\* each commit takes the whole batch; a running call ends in DONE or in
\* ERROR, and in DONE every accepted record has been committed; a failed
\* write to the disk leads to ERROR, and in ERROR after such a failure
\* nothing is committed and the checkpoint is neither saved nor deleted.
C30_StateMachine ==
    /\ [][FollowsCourse]_chatVars
    /\ [][(pc = "commit" /\ pc' = "stream")
             => (messages' = messages \o batch /\ batch' = <<>>)]_vars
    /\ [](pc \in Running => <>(pc \in {"done", "aborted"}))
    /\ [](pc = "aborted" => error # "none")
    /\ [](pc = "done" =>
            /\ batch = <<>>
            /\ Len(messages) = Cardinality(Accepted)
            /\ \A i \in Accepted : InSeq(Ids(messages), i))
    /\ [][IOFailure => pc' = "aborted"]_vars
    /\ [][(pc = "aborted" /\ error = "io")
             => (checkpoint' = checkpoint /\ sink' = sink /\ messages' = <<>>)]_vars

====
